---- MODULE Spec2Model ----
(***************************************************************************)
(* Population dashboard: the data ingestion and transformation pipeline.   *)
(*                                                                         *)
(*   getWorldBoundariesData  paginated fetch of the boundary records       *)
(*   getPopulationData       fetch of the CSV text, retry, extraction      *)
(*   parseCsvLine / parseCsvToJson   CSV tokenizer and record extractor    *)
(*   mergeDatasets           join of population and boundary records       *)
(*   processDataForChart / processDataByYear   chart series of a table     *)
(*                                                                         *)
(* Each operation has its own specification (SpecBoundaries,               *)
(* SpecPopulation, SpecLine, SpecCsv, SpecColumns, SpecMerge, SpecView);   *)
(* the variables of the other operations stay at their idle values.        *)
(*                                                                         *)
(* JavaScript strings are TLA+ strings, read one character at a time with  *)
(* SubSeq.  A JavaScript object is a function from its own keys to their   *)
(* values, so that a missing key is a key outside DOMAIN.                  *)
(***************************************************************************)
EXTENDS Integers, Sequences, FiniteSets, TLC

VARIABLES
    \* ---- getWorldBoundariesData (one subscription) ----
    bPhase,      \* "idle" | "first" | "pages" | "done" | "error"
    bRequests,   \* offsets of the page requests issued so far, in issue order
    bFirst,      \* the first response, once it has arrived
    bPages,      \* forkJoin's slots: page i -> [done, response]
    bOrder,      \* the additional pages in the order their responses completed
    bEmitted,    \* values delivered to the subscriber's next handler
    bError,      \* errors delivered to the subscriber's error handler
    bCause,      \* the failures of the underlying requests, as they happened
    \* ---- getPopulationData (one subscription) ----
    pPhase,      \* "idle" | "request" | "done" | "error"
    pRequests,   \* number of requests made to the CSV source
    pFailures,   \* the errors retry has answered by a new request, in order
    pTexts,      \* the response bodies handed to map(), in order
    pEmitted,    \* record lists delivered to the subscriber
    pError,      \* errors delivered to the subscriber
    \* ---- parseCsvLine (one call) ----
    lineTokens,  \* the argument line, as the pieces it is written from
    linePc,      \* "ready" | "returned"
    lineOut,     \* the result of the call
    \* ---- parseCsvToJson (one call) ----
    csvText,     \* the argument
    csvPc,       \* "ready" | "returned" | "threw"
    csvOut,      \* the result of the call
    \* ---- parseCsvToJson on a table and on a rearrangement of it ----
    colTable,    \* the lines of the document, each a list of raw fields
    colVariant,  \* the rearrangement: a column permutation and a header case
    colPc,       \* "ready" | "returned"
    colOut,      \* the results of the two calls
    \* ---- mergeDatasets (one call) ----
    mPop,        \* argument populationData
    mBoundaries, \* argument worldBoundaries
    mPc,         \* "ready" | "returned" | "threw"
    mOut,        \* the result of the call
    mHeap,       \* the objects: the records, the argument array, the returned array
    \* ---- DashboardDataService (one call on a merged table) ----
    viewData,    \* argument data
    viewCall,    \* the method called and its other arguments
    viewOut,     \* the result of the call
    \* ---- paginateChartData (one call) ----
    pgFull,      \* argument fullData
    pgCall,      \* arguments page and rowsPerPage, once called
    pgOut,       \* the result of the call
    \* ---- DashboardComponent ----
    dPhase,      \* "created", "loading", "loaded", "threw" or "failed"
    dPopulation, \* the population fetch: pending, its value or its error
    dBoundaries, \* the boundaries fetch: pending, its value or its error
    dMerges,     \* how many times mergeDatasets was called
    dErrors,     \* what the error handler of the load logged
    dLast,       \* the handler that ran last
    selectedDisplayOption,
    allPopulationData,
    countryOptions,
    selectedCountry,
    yearOptions,
    selectedYear,
    fullChartData,
    chartData,
    chartTitle,
    tableData,
    currentPage

bVars == <<bPhase, bRequests, bFirst, bPages, bOrder, bEmitted, bError, bCause>>
pVars == <<pPhase, pRequests, pFailures, pTexts, pEmitted, pError>>
lineVars == <<lineTokens, linePc, lineOut>>
csvVars == <<csvText, csvPc, csvOut>>
colVars == <<colTable, colVariant, colPc, colOut>>
mVars == <<mPop, mBoundaries, mPc, mOut, mHeap>>
viewVars == <<viewData, viewCall, viewOut>>
pgVars == <<pgFull, pgCall, pgOut>>
loadVars == <<dPhase, dPopulation, dBoundaries, dMerges, dErrors>>
optionVars == <<allPopulationData, countryOptions, yearOptions>>
chartVars == <<fullChartData, chartData, chartTitle, currentPage>>
dVars == <<loadVars, dLast, selectedDisplayOption, optionVars, selectedCountry,
           selectedYear, chartVars, tableData>>
vars == <<bVars, pVars, lineVars, csvVars, colVars, mVars, viewVars, pgVars, dVars>>

(***************************************************************************)
(* JavaScript values and strings                                           *)
(***************************************************************************)

\* A key of object o, or the default when o has no such key (o.k || d for
\* the keys the code reads this way).
Field(o, k, d) == IF k \in DOMAIN o THEN o[k] ELSE d

Has(o, k) == k \in DOMAIN o

\* s[i], 1-based; past either end it is undefined, rendered "" (no character).
CharAt(s, i) == IF i \in 1..Len(s) THEN SubSeq(s, i, i) ELSE ""

LowerLetters == "abcdefghijklmnopqrstuvwxyz"
UpperLetters == "ABCDEFGHIJKLMNOPQRSTUVWXYZ"

\* White space as String.prototype.trim and parseInt/parseFloat see it.
IsSpace(c) == c \in {" ", "\t", "\n", "\r", "\f"}

LetterIndex(letters, c) ==
    LET hits == {i \in 1..Len(letters) : CharAt(letters, i) = c}
    IN  IF hits = {} THEN 0 ELSE CHOOSE i \in hits : TRUE

UpperChar(c) ==
    LET i == LetterIndex(LowerLetters, c)
    IN  IF i = 0 THEN c ELSE CharAt(UpperLetters, i)

LowerChar(c) ==
    LET i == LetterIndex(UpperLetters, c)
    IN  IF i = 0 THEN c ELSE CharAt(LowerLetters, i)

\* The concatenation of a sequence of strings (by halves).
RECURSIVE ConcatAll(_)
ConcatAll(ss) ==
    IF Len(ss) = 0 THEN ""
    ELSE IF Len(ss) = 1 THEN ss[1]
    ELSE LET h == Len(ss) \div 2
         IN  ConcatAll(SubSeq(ss, 1, h)) \o ConcatAll(SubSeq(ss, h + 1, Len(ss)))

toUpperCase(s) == ConcatAll([i \in 1..Len(s) |-> UpperChar(CharAt(s, i))])

toLowerCase(s) == ConcatAll([i \in 1..Len(s) |-> LowerChar(CharAt(s, i))])

RECURSIVE trimStart(_)
trimStart(s) ==
    IF s # "" /\ IsSpace(CharAt(s, 1)) THEN trimStart(SubSeq(s, 2, Len(s))) ELSE s

RECURSIVE trimEnd(_)
trimEnd(s) ==
    IF s # "" /\ IsSpace(CharAt(s, Len(s))) THEN trimEnd(SubSeq(s, 1, Len(s) - 1)) ELSE s

trim(s) == trimEnd(trimStart(s))

\* Sequences of length at most n over S.
SeqUpTo(S, n) == UNION {[1..k -> S] : k \in 0..n}

RECURSIVE Flatten(_)
Flatten(ss) == IF ss = <<>> THEN <<>> ELSE Head(ss) \o Flatten(Tail(ss))

Min(a, b) == IF a < b THEN a ELSE b
Max(a, b) == IF a > b THEN a ELSE b

\* Math.ceil(a / b) for a >= 0, b > 0.
CeilDiv(a, b) == (a + b - 1) \div b

(***************************************************************************)
(* The boundary source (external): what one page request can answer        *)
(***************************************************************************)

\* limit: the fixed page size of every request.
limit == 100

\* Largest total_count the source reports, in units of 50 records.
MaxTotalUnits == 5

TotalCounts == {0, 1, 101} \cup {50 * k : k \in 1..MaxTotalUnits}

\* The records at server indices offset .. offset+count-1; a record is
\* named by its index in the server's data set.
PageRecords(offset, count) == [j \in 1..count |-> offset + j - 1]

\* What a source holding total records returns for a full page at offset.
ServerFullCount(offset, total) == Max(0, Min(limit, total - offset))

\* A page may come back short of what was asked.
ShortCounts == {0, 50}

\* Answers to the request at offset 0: {total_count, results}, either key
\* possibly missing.
FirstResponses ==
    UNION {{[total_count |-> t, results |-> PageRecords(0, c)] :
               c \in {ServerFullCount(0, t)} \cup ShortCounts} : t \in TotalCounts}
    \cup {[results |-> PageRecords(0, c)] : c \in ShortCounts}
    \cup {[total_count |-> t] : t \in TotalCounts}
    \cup {[links |-> <<>>]}

\* Answers to the request at a later offset, from a source of total records.
PageResponses(offset, total) ==
    {[total_count |-> total, results |-> PageRecords(offset, c)] :
        c \in {ServerFullCount(offset, total)} \cup ShortCounts}
    \cup {[total_count |-> total]}

\* Failures of one HTTP request: an error object with or without a message.
RequestFailures == {[message |-> "Http failure response: 500"],
                    [message |-> "timeout"],
                    [status |-> 0]}

NoResponse == [none |-> TRUE]

\* The result of a call that has not returned yet.
NoResult == [kind |-> "none"]

(***************************************************************************)
(* getWorldBoundariesData                                                  *)
(***************************************************************************)

\* const totalCount = firstResponse.total_count || 0
TotalCountOf(firstResponse) == Field(firstResponse, "total_count", 0)

\* const initResults = firstResponse.results || []
InitResultsOf(firstResponse) == Field(firstResponse, "results", <<>>)

\* Variant: the test written with > instead of >=.
HasAllDataStrict(firstResponse) ==
    Len(InitResultsOf(firstResponse)) > TotalCountOf(firstResponse)

\* if (initResults.length >= totalCount) return of(firstResponse)
HasAllData(firstResponse) ==
    Len(InitResultsOf(firstResponse)) >= TotalCountOf(firstResponse)

\* Variant: Math.floor in place of Math.ceil.
AdditionalCallsCountFloor(firstResponse) ==
    (TotalCountOf(firstResponse) - Len(InitResultsOf(firstResponse))) \div limit

\* additionalCallsCount = Math.ceil((totalCount - initResults.length) / limit)
AdditionalCallsCount(firstResponse) ==
    CeilDiv(TotalCountOf(firstResponse) - Len(InitResultsOf(firstResponse)), limit)

\* Variant: offset = (i - 1) * limit
AdditionalOffsetsFromZero(firstResponse) ==
    [i \in 1..AdditionalCallsCount(firstResponse) |-> (i - 1) * limit]

\* for (i = 1; i <= additionalCallsCount; i++) offset = i * limit
AdditionalOffsets(firstResponse) ==
    [i \in 1..AdditionalCallsCount(firstResponse) |-> i * limit]

\* Variant: concat, a source is subscribed to when the one before it has
\* completed.
ConcatSubscribed(sources, completed) ==
    SubSeq(sources, 1, Min(completed + 1, Len(sources)))

\* forkJoin(additionalCalls): the sources subscribed to, that is the requests
\* sent, once `completed` of them have completed: all, from the start.
ForkJoinSubscribed(sources, completed) == sources

\* Variant: the values in the order the sources completed (merge + toArray).
ForkJoinValuesByCompletion(pages, order) ==
    [i \in 1..Len(pages) |-> pages[order[i]].response]

\* forkJoin: the array it emits holds, at index i, the value of source i.
ForkJoinValues(pages, order) == [i \in 1..Len(pages) |-> pages[i].response]

\* if (response.results && Array.isArray(response.results)) push(...results)
RECURSIVE AllAdditionalResults(_)
AllAdditionalResults(responses) ==
    IF responses = <<>> THEN <<>>
    ELSE Field(Head(responses), "results", <<>>) \o AllAdditionalResults(Tail(responses))

\* { ...firstResponse, results: [...initResults, ...all], total_count }
CombinedResponse(firstResponse, responses) ==
    [k \in DOMAIN firstResponse \cup {"results", "total_count"} |->
        CASE k = "results" ->
                 InitResultsOf(firstResponse) \o AllAdditionalResults(responses)
          [] k = "total_count" -> TotalCountOf(firstResponse)
          [] OTHER -> firstResponse[k]]

\* Variant: the failure swallowed and an empty result emitted in its place.
CatchBoundariesErrorSwallowed(error) ==
    [kind |-> "next", value |-> [total_count |-> 0, results |-> <<>>]]

\* catchError: what the subscriber gets for a failure of the pipeline.
CatchBoundariesError(error) ==
    [kind |-> "error",
     message |-> "Failed to fetch world boundaries data: "
                     \o Field(error, "message", "Network error")]

\* Delivery of a catchError outcome to the subscriber.
BDeliver(outcome) ==
    IF outcome.kind = "error"
    THEN /\ bError' = Append(bError, outcome.message)
         /\ bEmitted' = bEmitted
         /\ bPhase' = "error"
    ELSE /\ bEmitted' = Append(bEmitted, outcome.value)
         /\ bError' = bError
         /\ bPhase' = "done"

\* subscribe: the request for offset 0 goes out.
BSubscribe ==
    /\ bPhase = "idle"
    /\ bPhase' = "first"
    /\ bRequests' = <<0>>
    /\ UNCHANGED <<bFirst, bPages, bOrder, bEmitted, bError, bCause>>

\* The first request fails.
BFirstFails(error) ==
    /\ bPhase = "first"
    /\ bCause' = Append(bCause, error)
    /\ BDeliver(CatchBoundariesError(error))
    /\ UNCHANGED <<bRequests, bFirst, bPages, bOrder>>

\* The first response arrives: switchMap's projection runs, and with it the
\* subscription of forkJoin to every additional call.
BFirstArrives(firstResponse) ==
    /\ bPhase = "first"
    /\ bFirst' = firstResponse
    /\ IF HasAllData(firstResponse)
       THEN /\ bEmitted' = Append(bEmitted, firstResponse)
            /\ bPhase' = "done"
            /\ UNCHANGED <<bRequests, bPages>>
       ELSE LET offsets == AdditionalOffsets(firstResponse)
            IN  /\ bRequests' = bRequests \o ForkJoinSubscribed(offsets, 0)
                /\ bPages' = [i \in 1..Len(offsets) |->
                                 [done |-> FALSE, response |-> NoResponse]]
                \* forkJoin of no source completes without a value
                /\ bPhase' = IF Len(offsets) = 0 THEN "done" ELSE "pages"
                /\ bEmitted' = bEmitted
    /\ UNCHANGED <<bOrder, bError, bCause>>

\* The response of additional call i arrives; the last one makes forkJoin
\* emit, and map() combine.
BPageArrives(i, response) ==
    /\ bPhase = "pages"
    /\ i \in DOMAIN bPages
    /\ i + 1 \in DOMAIN bRequests
    /\ ~bPages[i].done
    /\ LET pages == [bPages EXCEPT ![i] = [done |-> TRUE, response |-> response]]
           order == Append(bOrder, i)
       IN  /\ bPages' = pages
           /\ bOrder' = order
           /\ bRequests' = <<Head(bRequests)>>
                  \o ForkJoinSubscribed(AdditionalOffsets(bFirst), Len(order))
           /\ IF \A j \in DOMAIN pages : pages[j].done
              THEN /\ bEmitted' = Append(bEmitted,
                          CombinedResponse(bFirst, ForkJoinValues(pages, order)))
                   /\ bPhase' = "done"
              ELSE UNCHANGED <<bEmitted, bPhase>>
    /\ UNCHANGED <<bFirst, bError, bCause>>

\* Additional call i fails: forkJoin fails at once and drops the others.
BPageFails(i, error) ==
    /\ bPhase = "pages"
    /\ i \in DOMAIN bPages
    /\ i + 1 \in DOMAIN bRequests
    /\ ~bPages[i].done
    /\ bCause' = Append(bCause, error)
    /\ BDeliver(CatchBoundariesError(error))
    /\ UNCHANGED <<bRequests, bFirst, bPages, bOrder>>

BInit ==
    /\ bPhase = "idle"
    /\ bRequests = <<>>
    /\ bFirst = NoResponse
    /\ bPages = <<>>
    /\ bOrder = <<>>
    /\ bEmitted = <<>>
    /\ bError = <<>>
    /\ bCause = <<>>

(***************************************************************************)
(* JavaScript numbers: parseInt, parseFloat, isNaN                         *)
(*                                                                         *)
(* A number is NaN, +-Infinity, or the finite value n * 10^e.  The         *)
(* canonical form has e <= 0 with no trailing zero in a fraction, or e > 0 *)
(* only when n * 10^e does not fit nine digits.  Inputs keep mantissas     *)
(* within nine digits and away from the last representable decade          *)
(* (1.79e308 .. 1.8e308).                                                  *)
(***************************************************************************)

NaN == [k |-> "nan"]
Infinity(neg) == [k |-> "inf", neg |-> neg]
Num(n) == [k |-> "num", n |-> n, e |-> 0]

isNaN(x) == x.k = "nan"
IsFiniteNumber(x) == x.k = "num"

Digits == "0123456789"
IsDigit(c) == LetterIndex(Digits, c) # 0
DigitValue(c) == LetterIndex(Digits, c) - 1

\* The first index at or after i that holds no digit.
RECURSIVE DigitsEnd(_, _)
DigitsEnd(s, i) ==
    IF i <= Len(s) /\ IsDigit(CharAt(s, i)) THEN DigitsEnd(s, i + 1) ELSE i

RECURSIVE DigitsToInt(_)
DigitsToInt(d) ==
    IF d = "" THEN 0
    ELSE 10 * DigitsToInt(SubSeq(d, 1, Len(d) - 1)) + DigitValue(CharAt(d, Len(d)))

RECURSIVE NumDigits(_)
NumDigits(n) == IF n < 10 THEN 1 ELSE 1 + NumDigits(n \div 10)

RECURSIVE LeadingTwo(_)
LeadingTwo(n) == IF n < 100 THEN (IF n < 10 THEN 10 * n ELSE n) ELSE LeadingTwo(n \div 10)

StartsWith(s, prefix) == Len(s) >= Len(prefix) /\ SubSeq(s, 1, Len(prefix)) = prefix

\* The value n * 10^e (n >= 0) as a number, with the sign applied.
RECURSIVE Canonical(_, _, _)
Canonical(neg, n, e) ==
    IF n = 0 THEN Num(0)
    ELSE IF e < 0 /\ n % 10 = 0 THEN Canonical(neg, n \div 10, e + 1)
    ELSE IF e > 0 /\ n < 100000000 THEN Canonical(neg, n * 10, e - 1)
    ELSE IF NumDigits(n) + e > 309
            \/ (NumDigits(n) + e = 309 /\ LeadingTwo(n) >= 18) THEN Infinity(neg)
    ELSE IF NumDigits(n) + e < -323 THEN Num(0)
    ELSE [k |-> "num", n |-> IF neg THEN 0 - n ELSE n, e |-> e]

\* The text after optional leading white space and an optional sign.
Unsigned(s) ==
    LET t == trimStart(s)
    IN  IF StartsWith(t, "-") \/ StartsWith(t, "+") THEN SubSeq(t, 2, Len(t)) ELSE t

IsNegative(s) == StartsWith(trimStart(s), "-")

\* parseInt(s, 10): the longest prefix of decimal digits.
parseInt(s) ==
    LET u == Unsigned(s)
        end == DigitsEnd(u, 1)
    IN  IF end = 1 THEN NaN
        ELSE Canonical(IsNegative(s), DigitsToInt(SubSeq(u, 1, end - 1)), 0)

\* parseFloat(s): the longest prefix that is a decimal literal or Infinity.
parseFloat(s) ==
    LET u == Unsigned(s)
        intEnd == DigitsEnd(u, 1)
        hasDot == CharAt(u, intEnd) = "."
        fracEnd == IF hasDot THEN DigitsEnd(u, intEnd + 1) ELSE intEnd
        intDigits == SubSeq(u, 1, intEnd - 1)
        fracDigits == IF hasDot THEN SubSeq(u, intEnd + 1, fracEnd - 1) ELSE ""
        hasExp == CharAt(u, fracEnd) \in {"e", "E"}
        expSigned == CharAt(u, fracEnd + 1) \in {"-", "+"}
        expStart == IF expSigned THEN fracEnd + 2 ELSE fracEnd + 1
        expEnd == DigitsEnd(u, expStart)
        expDigits == IF hasExp THEN SubSeq(u, expStart, expEnd - 1) ELSE ""
        exp == IF CharAt(u, fracEnd + 1) = "-"
               THEN 0 - DigitsToInt(expDigits) ELSE DigitsToInt(expDigits)
    IN  IF StartsWith(u, "Infinity") THEN Infinity(IsNegative(s))
        ELSE IF intDigits = "" /\ fracDigits = "" THEN NaN
        ELSE Canonical(IsNegative(s), DigitsToInt(intDigits \o fracDigits),
                       exp - Len(fracDigits))

(***************************************************************************)
(* parseCsvLine                                                            *)
(***************************************************************************)

\* Variant: a quote is never read as an escaped quote.
IsEscapedQuoteNever(insideQuotes, nextChar) == FALSE

\* insideQuotes && nextChar === '"'
IsEscapedQuote(insideQuotes, nextChar) == insideQuotes /\ nextChar = "\""

\* Variant: every comma ends the field.
IsSeparatorAnywhere(char, insideQuotes) == char = ","

\* char === ',' && !insideQuotes
IsSeparator(char, insideQuotes) == char = "," /\ ~insideQuotes

\* The loop of parseCsvLine from index i on, with its three locals.
RECURSIVE ParseCsvLineFrom(_, _, _, _, _)
ParseCsvLineFrom(line, i, values, currentValue, insideQuotes) ==
    IF i > Len(line) THEN Append(values, currentValue)
    ELSE LET char == CharAt(line, i)
             nextChar == CharAt(line, i + 1)
         IN  IF char = "\""
             THEN IF IsEscapedQuote(insideQuotes, nextChar)
                  THEN ParseCsvLineFrom(line, i + 2, values,
                                        currentValue \o "\"", insideQuotes)
                  ELSE ParseCsvLineFrom(line, i + 1, values,
                                        currentValue, ~insideQuotes)
             ELSE IF IsSeparator(char, insideQuotes)
             THEN ParseCsvLineFrom(line, i + 1, Append(values, currentValue),
                                   "", insideQuotes)
             ELSE ParseCsvLineFrom(line, i + 1, values,
                                   currentValue \o char, insideQuotes)

parseCsvLine(line) == ParseCsvLineFrom(line, 1, <<>>, "", FALSE)

\* Largest number of pieces of a generated line.
MaxLineTokens == 5

\* The pieces: a letter, a comma, a quote, a doubled quote.
LineTokens == {"a", ",", "\"", "\"\""}

KoreaLine == <<"\"", "Korea", ",", " Rep.", "\"", ",", "KOR", ",", "2020", ",", "51780000">>

SheSaidLine ==
    <<"\"", "She said ", "\"\"", "hi", "\"\"", "\"", ",", "XX", ",", "2000", ",", "1">>

Lines == SeqUpTo(LineTokens, MaxLineTokens) \cup {KoreaLine, SheSaidLine}

LineCall ==
    /\ linePc = "ready"
    /\ lineOut' = parseCsvLine(ConcatAll(lineTokens))
    /\ linePc' = "returned"
    /\ UNCHANGED lineTokens

LineIdle ==
    /\ lineTokens = <<>>
    /\ linePc = "idle"
    /\ lineOut = <<>>

LineInit ==
    /\ lineTokens \in Lines
    /\ linePc = "ready"
    /\ lineOut = <<>>

(***************************************************************************)
(* parseCsvToJson                                                          *)
(***************************************************************************)

\* .replace(/\r\n/g, '\n'): every \r that a \n follows goes.
ReplaceCrLf(s) ==
    ConcatAll([i \in 1..Len(s) |->
        IF CharAt(s, i) = "\r" /\ CharAt(s, i + 1) = "\n" THEN "" ELSE CharAt(s, i)])

\* .replace(/\r/g, '\n')
ReplaceCr(s) ==
    ConcatAll([i \in 1..Len(s) |-> IF CharAt(s, i) = "\r" THEN "\n" ELSE CharAt(s, i)])

\* .split('\n'): the pieces between consecutive line feeds.
SplitLines(s) ==
    LET breaks == {i \in 1..Len(s) : CharAt(s, i) = "\n"}
        n == Cardinality(breaks)
        Break(k) == IF k = 0 THEN 0
                    ELSE IF k = n + 1 THEN Len(s) + 1
                    ELSE CHOOSE p \in breaks : Cardinality({q \in breaks : q < p}) = k - 1
    IN  [k \in 1..(n + 1) |-> SubSeq(s, Break(k - 1) + 1, Break(k) - 1)]

\* line => line.trim() !== ''
IsNonBlankLine(line) == trim(line) # ""

\* The chain of parseCsvToJson's first statement.
CsvLines(text) == SelectSeq(SplitLines(ReplaceCr(ReplaceCrLf(text))), IsNonBlankLine)

\* .replace(/\r$/, '') and .replace(/\n$/, '')
StripLast(s, c) ==
    IF s # "" /\ CharAt(s, Len(s)) = c THEN SubSeq(s, 1, Len(s) - 1) ELSE s

\* parseCsvLine(lines[0]).map(h => h.trim().replace(/\r$/, '').replace(/\n$/, ''))
CsvHeaders(lines) ==
    LET raw == parseCsvLine(lines[1])
    IN  [i \in 1..Len(raw) |-> StripLast(StripLast(trim(raw[i]), "\r"), "\n")]

\* Variant: the header names compared as written.
FindHeaderExact(headers, name) ==
    LET hits == {i \in 1..Len(headers) : headers[i] = name}
    IN  IF hits = {} THEN 0 ELSE CHOOSE i \in hits : \A j \in hits : i <= j

\* headers.findIndex(h => h.toLowerCase() === name): 1-based, 0 for -1.
FindHeader(headers, name) ==
    LET hits == {i \in 1..Len(headers) : toLowerCase(headers[i]) = name}
    IN  IF hits = {} THEN 0 ELSE CHOOSE i \in hits : \A j \in hits : i <= j

\* headers.join(', ')
RECURSIVE Join(_, _)
Join(ss, sep) ==
    IF ss = <<>> THEN ""
    ELSE IF Len(ss) = 1 THEN ss[1]
    ELSE ss[1] \o sep \o Join(Tail(ss), sep)

\* String(values[index]): an index past the end reads undefined.
ValueText(values, index) ==
    IF index \in 1..Len(values) THEN values[index] ELSE "undefined"

\* values.length === 0 || values.every(v => v.trim() === '')
IsEmptyRow(values) ==
    Len(values) = 0 \/ \A j \in 1..Len(values) : trim(values[j]) = ""

\* isNaN(year) || isNaN(value)
IsInvalidRow(year, value) == isNaN(year) \/ isNaN(value)

\* Variant: data.unshift(record), the record put in front.
Unshift(data, record) == <<record>> \o data

\* data.push(record)
Push(data, record) == Append(data, record)

\* The loop over the data rows from line i on; data is the list so far.
\* values[index].trim() on a field the row does not have is a TypeError.
RECURSIVE CsvRowsFrom(_, _, _, _)
CsvRowsFrom(lines, i, idx, data) ==
    IF i > Len(lines) THEN [kind |-> "ok", data |-> data]
    ELSE LET values == parseCsvLine(lines[i])
             year == parseInt(ValueText(values, idx.year))
             value == parseFloat(ValueText(values, idx.value))
         IN  IF IsEmptyRow(values) THEN CsvRowsFrom(lines, i + 1, idx, data)
             ELSE IF IsInvalidRow(year, value) THEN CsvRowsFrom(lines, i + 1, idx, data)
             ELSE IF idx.countryName \notin 1..Len(values)
                     \/ idx.countryCode \notin 1..Len(values)
             THEN [kind |-> "error", name |-> "TypeError", line |-> i,
                   message |-> "Cannot read properties of undefined (reading 'trim')"]
             ELSE CsvRowsFrom(lines, i + 1, idx,
                      Push(data, [countryName |-> trim(values[idx.countryName]),
                                    countryCode |-> trim(values[idx.countryCode]),
                                    year |-> year,
                                    value |-> value]))

\* Variant: the call fails only when all four columns are absent.
MissingEveryColumn(idx) ==
    idx.countryName = 0 /\ idx.countryCode = 0 /\ idx.year = 0 /\ idx.value = 0

\* countryNameIndex === -1 || countryCodeIndex === -1 || yearIndex === -1 ||
\* valueIndex === -1
MissingRequiredColumn(idx) ==
    idx.countryName = 0 \/ idx.countryCode = 0 \/ idx.year = 0 \/ idx.value = 0

parseCsvToJson(text) ==
    LET lines == CsvLines(text)
    IN  IF Len(lines) = 0 THEN [kind |-> "ok", data |-> <<>>]
        ELSE LET headers == CsvHeaders(lines)
                 idx == [countryName |-> FindHeader(headers, "country name"),
                         countryCode |-> FindHeader(headers, "country code"),
                         year |-> FindHeader(headers, "year"),
                         value |-> FindHeader(headers, "value")]
             IN  IF MissingRequiredColumn(idx)
                 THEN [kind |-> "error", name |-> "Error", headers |-> headers,
                       message |-> "CSV file missing required columns. Found headers: "
                                       \o Join(headers, ", ")]
                 ELSE CsvRowsFrom(lines, 2, idx, <<>>)

(***************************************************************************)
(* getPopulationData                                                       *)
(***************************************************************************)

\* Largest number of data lines of a CSV document.
MaxRows == 2

CsvHeaderLines == {"Country Name,Country Code,Year,Value",
                   "country name,COUNTRY CODE,year,value",
                   "Country Name,Country Code,Year"}

CsvDataLines == {"India,IND,2020,1380004385",
                 "\"Korea, Rep.\",KOR,2021,51780000",
                 "Aruba,abw,1960,54.5",
                 "Aruba,ABW,abc,5",
                 "Aruba,ABW,1961,Infinity",
                 "Aruba,ABW,1962,1e999",
                 "Aruba,ABW,1963,NaN",
                 "Aruba,ABW,1964,",
                 " , ,,",
                 "  "}

LineEndings == {"\n", "\r\n", "\r"}

\* A header line and up to MaxRows data lines, each closed by the same
\* line ending.
CsvDocuments ==
    {ConcatAll([i \in 1..(1 + Len(rows)) |->
                   (IF i = 1 THEN header ELSE rows[i - 1]) \o ending]) :
        header \in CsvHeaderLines,
        rows \in SeqUpTo(CsvDataLines, MaxRows),
        ending \in LineEndings}

\* Documents with the columns in another order and a data line that may
\* have fewer fields than the header line.
ShortRowDocuments ==
    {header \o "\n" \o row \o "\n" :
        header \in {"Year,Value,Country Name,Country Code",
                    "Country Code,Year,Value,Country Name"},
        row \in {"2020,5", "2020,5,India", "IND,2020,5", "2020,5,India,IND"}}

\* Response bodies of the CSV source.
CsvResponseTexts ==
    {"", " \r\n ",
     "Country Name,Country Code,Year,Value\n",
     "Country Name,Country Code,Year,Value\nIndia,IND,2020,1380004385\n",
     "Country Name,Country Code,Year,Value\r\nAruba,ABW,1961,Infinity\r\n",
     "Country Name,Year,Value\nIndia,2020,1380004385\n",
     "Country Name,Country Code,Year\nIndia,IND,2020\n",
     "COUNTRY NAME,country code,Value\r\nIndia,IND,5\r\n",
     "Country Code, Year ,Value\nIND,2020,5\n"}

\* retry(2)
retryCount == 2

\* Variant: retry placed after map, so that it also sees what map throws.
PopulationPipeMapFirst == <<"map", "retry", "catchError">>

\* The operators of the pipe, in the order they are applied to http.get.
PopulationPipe == <<"retry", "map", "catchError">>

PipeIndex(pipe, op) == CHOOSE i \in 1..Len(pipe) : pipe[i] = op

\* An error raised by operator `from` ("source" for http.get itself) passes
\* through operator op exactly when op comes later in the pipe.
ErrorReaches(pipe, from, op) ==
    from = "source" \/ PipeIndex(pipe, from) < PipeIndex(pipe, op)

\* !csvText || csvText.trim() === ''
IsEmptyResponse(text) == text = "" \/ trim(text) = ""

\* The callback of map(): the parsed records, or the error it throws.
MapCsvText(text) ==
    IF IsEmptyResponse(text)
    THEN [kind |-> "error", name |-> "Error", message |-> "Empty response from API"]
    ELSE parseCsvToJson(text)

\* catchError: what the subscriber gets for a failure of the pipeline.
CatchPopulationError(error) ==
    [kind |-> "error",
     message |-> "Failed to fetch population data: "
                     \o Field(error, "message", "Network error")]

\* An error raised at `from`: retry resubscribes to the source while it has
\* retries left and the error reaches it; otherwise catchError delivers it.
PRaise(from, error) ==
    IF ErrorReaches(PopulationPipe, from, "retry") /\ Len(pFailures) < retryCount
    THEN /\ pFailures' = Append(pFailures, error)
         /\ pRequests' = pRequests + 1
         /\ pPhase' = "request"
         /\ UNCHANGED <<pEmitted, pError>>
    ELSE /\ pError' = Append(pError, CatchPopulationError(error).message)
         /\ pPhase' = "error"
         /\ UNCHANGED <<pFailures, pRequests, pEmitted>>

PSubscribe ==
    /\ pPhase = "idle"
    /\ pPhase' = "request"
    /\ pRequests' = 1
    /\ UNCHANGED <<pFailures, pTexts, pEmitted, pError>>

\* The request in flight fails.
PRequestFails(error) ==
    /\ pPhase = "request"
    /\ PRaise("source", error)
    /\ UNCHANGED pTexts

\* The request in flight answers with a body.
PResponse(text) ==
    /\ pPhase = "request"
    /\ pTexts' = Append(pTexts, text)
    /\ LET mapped == MapCsvText(text)
       IN  IF mapped.kind = "error"
           THEN PRaise("map", mapped)
           ELSE /\ pEmitted' = Append(pEmitted, mapped.data)
                /\ pPhase' = "done"
                /\ UNCHANGED <<pFailures, pRequests, pError>>

PInit ==
    /\ pPhase = "idle"
    /\ pRequests = 0
    /\ pFailures = <<>>
    /\ pTexts = <<>>
    /\ pEmitted = <<>>
    /\ pError = <<>>

(***************************************************************************)
(* parseCsvToJson, called on a document                                    *)
(***************************************************************************)

CsvCall ==
    /\ csvPc = "ready"
    /\ csvOut' = parseCsvToJson(csvText)
    /\ csvPc' = IF csvOut'.kind = "ok" THEN "returned" ELSE "threw"
    /\ UNCHANGED csvText

CsvIdle ==
    /\ csvText = ""
    /\ csvPc = "idle"
    /\ csvOut = NoResult

CsvInit ==
    /\ csvText \in CsvDocuments \cup ShortRowDocuments
    /\ csvPc = "ready"
    /\ csvOut = NoResult

(***************************************************************************)
(* parseCsvToJson, called on a table and on a rearrangement of the table   *)
(***************************************************************************)

\* Largest number of data lines of a table.
MaxTableRows == 2

\* Header lines with the four required names; a fifth column is either a
\* column the extraction does not read or a second column named year.
TableHeaders == {<<"Country Name", "Country Code", "Year", "Value">>,
                 <<"Country Name", "Country Code", "Year", "Value", "Unit">>,
                 <<"Country Name", "Country Code", "Year", "Value", "YEAR">>}

\* Data lines, as raw fields; a line has the fields of its header's columns.
TableRows == {<<"India", "IND", "2020", "1380004385", "1999">>,
              <<"\"Korea, Rep.\"", "KOR", "2021", "51780000", "7">>,
              <<" Aruba ", "abw", "abc", "54.5", "">>}

Tables ==
    {<<header>> \o [i \in 1..Len(rows) |-> SubSeq(rows[i], 1, Len(header))] :
        header \in TableHeaders, rows \in SeqUpTo(TableRows, MaxTableRows)}

\* Permutations of n columns: the swaps of two columns (the identity among
\* them), the rotations and the reversal.
ColumnPermutations(n) ==
    {[k \in 1..n |-> IF k = i THEN j ELSE IF k = j THEN i ELSE k] : i, j \in 1..n}
    \cup {[k \in 1..n |-> ((k + r - 1) % n) + 1] : r \in 1..n}
    \cup {[k \in 1..n |-> n + 1 - k]}

HeaderCases == {"same", "lower", "upper"}

Variants(table) ==
    {[perm |-> perm, headerCase |-> c] :
        perm \in ColumnPermutations(Len(table[1])), c \in HeaderCases}

Permute(fields, perm) == [i \in 1..Len(fields) |-> fields[perm[i]]]

Recase(name, headerCase) ==
    IF headerCase = "lower" THEN toLowerCase(name)
    ELSE IF headerCase = "upper" THEN toUpperCase(name)
    ELSE name

\* The table with its columns permuted, on the header line and on every
\* data line, and the header names recased.
Rearranged(table, variant) ==
    [i \in 1..Len(table) |->
        IF i = 1
        THEN [k \in 1..Len(table[1]) |->
                 Recase(Permute(table[1], variant.perm)[k], variant.headerCase)]
        ELSE Permute(table[i], variant.perm)]

\* The document of a table: fields joined by commas, lines closed by \n.
TableText(table) ==
    ConcatAll([i \in 1..Len(table) |-> Join(table[i], ",") \o "\n"])

ColCall ==
    /\ colPc = "ready"
    /\ colOut' = <<parseCsvToJson(TableText(colTable)),
                   parseCsvToJson(TableText(Rearranged(colTable, colVariant)))>>
    /\ colPc' = "returned"
    /\ UNCHANGED <<colTable, colVariant>>

ColIdle ==
    /\ colTable = <<>>
    /\ colVariant = [perm |-> <<>>, headerCase |-> "same"]
    /\ colPc = "idle"
    /\ colOut = <<>>

ColInit ==
    /\ colTable \in Tables
    /\ colVariant \in Variants(colTable)
    /\ colPc = "ready"
    /\ colOut = <<>>

(***************************************************************************)
(* mergeDatasets                                                           *)
(*                                                                         *)
(* populationData is an array of records.  worldBoundaries is null, an     *)
(* array, or an object whose props may hold results.  The value of a       *)
(* boundary's iso3 carries its JavaScript type, which the code tests.      *)
(***************************************************************************)

JsNull == [type |-> "null"]
JsArray(items) == [type |-> "array", items |-> items]
JsObject(props) == [type |-> "object", props |-> props]
JsString(s) == [type |-> "string", s |-> s]
JsNumber(n) == [type |-> "number", n |-> n]

\* Largest population list and largest results list given to mergeDatasets.
MaxPop == 2
MaxBoundaries == 2

PopulationRecords ==
    {[countryName |-> "India", countryCode |-> "IND",
      year |-> Num(2020), value |-> Num(1380004385)],
     [countryName |-> "India", countryCode |-> " ind ",
      year |-> Num(1960), value |-> Num(445954579), continent |-> "Old"],
     [countryName |-> "United States", countryCode |-> "USA",
      year |-> Num(2020), value |-> Num(331511512)],
     [countryName |-> "World", countryCode |-> "",
      year |-> Num(2020), value |-> Num(7)]}

BoundaryRecords ==
    {[iso3 |-> JsString("IND"), continent |-> "Asia"],
     [iso3 |-> JsString(" ind"), continent |-> "Asia (copy)", region |-> "Southern Asia"],
     [iso3 |-> JsString("USA"), continent |-> "Americas",
      countryName |-> "U.S.A.", year |-> Num(0)],
     [iso3 |-> JsString("  "), continent |-> "Blank"],
     [iso3 |-> JsNumber(356), continent |-> "Numeric"],
     [continent |-> "Antarctica"]}

BoundariesInputs ==
    {JsNull, JsArray(<<>>), JsObject([total_count |-> 0])}
    \cup {JsObject([total_count |-> Len(rs), results |-> rs]) :
             rs \in SeqUpTo(BoundaryRecords, MaxBoundaries)}

\* !worldBoundaries
IsFalsyBoundaries(worldBoundaries) == worldBoundaries.type = "null"

\* worldBoundaries['results'] && worldBoundaries['results'].length &&
\* worldBoundaries['results']: the array when it has elements, else the
\* falsy operand the chain stopped at (undefined, or the number 0).
BoundariesArray(worldBoundaries) ==
    IF worldBoundaries.type = "object" /\ Has(worldBoundaries.props, "results")
    THEN IF Len(worldBoundaries.props.results) # 0
         THEN JsArray(worldBoundaries.props.results)
         ELSE JsNumber(0)
    ELSE [type |-> "undefined"]

\* iso3 && typeof iso3 === 'string' && iso3.trim() !== ''
HasUsableIso3(boundary) ==
    /\ Has(boundary, "iso3")
    /\ boundary.iso3.type = "string"
    /\ boundary.iso3.s # ""
    /\ trim(boundary.iso3.s) # ""

\* const key = iso3.trim().toUpperCase()
Iso3Key(boundary) == toUpperCase(trim(boundary.iso3.s))

\* Variant: set without the has() test, so the last duplicate wins.
MapSetAlways(map, key, boundary) ==
    [k \in DOMAIN map \cup {key} |-> IF k = key THEN boundary ELSE map[k]]

\* if (!boundariesMap.has(key)) boundariesMap.set(key, boundary)
MapSetIfAbsent(map, key, boundary) ==
    IF key \in DOMAIN map THEN map ELSE map @@ (key :> boundary)

\* boundariesArray.forEach(...): the map after the boundaries from i on.
RECURSIVE BoundariesMapFrom(_, _, _)
BoundariesMapFrom(boundaries, i, map) ==
    IF i > Len(boundaries) THEN map
    ELSE IF HasUsableIso3(boundaries[i])
    THEN BoundariesMapFrom(boundaries, i + 1,
             MapSetIfAbsent(map, Iso3Key(boundaries[i]), boundaries[i]))
    ELSE BoundariesMapFrom(boundaries, i + 1, map)

EmptyMap == [key \in {} |-> {}]

BoundariesMap(boundaries) == BoundariesMapFrom(boundaries, 1, EmptyMap)

\* Variant: the code is uppercased but not trimmed.
CountryCodeKeyUntrimmed(popData) == toUpperCase(Field(popData, "countryCode", ""))

\* popData.countryCode?.trim().toUpperCase(); undefined and '' are falsy alike
CountryCodeKey(popData) == toUpperCase(trim(Field(popData, "countryCode", "")))

\* { ...popData, ...boundary }
SpreadMerge(popData, boundary) ==
    [k \in DOMAIN popData \cup DOMAIN boundary |->
        IF k \in DOMAIN boundary THEN boundary[k] ELSE popData[k]]

\* The callback of populationData.map().
MergeOne(popData, map) ==
    LET countryCode == CountryCodeKey(popData)
    IN  IF countryCode # "" /\ countryCode \in DOMAIN map
        THEN SpreadMerge(popData, map[countryCode])
        ELSE popData

mergeDatasets(populationData, worldBoundaries) ==
    IF Len(populationData) = 0 THEN [kind |-> "ok", value |-> populationData]
    ELSE IF IsFalsyBoundaries(worldBoundaries)
    THEN [kind |-> "ok", value |-> populationData]
    ELSE LET boundariesArray == BoundariesArray(worldBoundaries)
         IN  IF boundariesArray.type # "array"
             THEN [kind |-> "error", name |-> "TypeError",
                   message |-> IF boundariesArray.type = "undefined"
                               THEN "Cannot read properties of undefined (reading 'forEach')"
                               ELSE "boundariesArray.forEach is not a function"]
             ELSE LET map == BoundariesMap(boundariesArray.items)
                  IN  [kind |-> "ok",
                       value |-> [i \in 1..Len(populationData) |->
                                     MergeOne(populationData[i], map)]]

\* The arrays and records as objects.  objects[ref] is the content of the
\* record with reference ref; populationData and mergedData are the contents
\* of the argument array and of the returned array, as references.
NoObjects == [objects |-> <<>>, populationData |-> <<>>, mergedData |-> <<>>]

\* worldBoundaries['results'], when there is one
ResultsOf(worldBoundaries) ==
    IF worldBoundaries.type = "object" /\ Has(worldBoundaries.props, "results")
    THEN worldBoundaries.props.results
    ELSE <<>>

\* The objects at the call: the population records, then the boundary records.
ObjectsAtCall(populationData, worldBoundaries) ==
    [objects |-> populationData \o ResultsOf(worldBoundaries),
     populationData |-> [i \in 1..Len(populationData) |-> i],
     mergedData |-> <<>>]

\* boundariesMap, as references: key -> reference of the boundary record set
\* under that key.
BoundaryRefs(heap) ==
    LET n == Len(heap.populationData)
        boundaries == SubSeq(heap.objects, n + 1, Len(heap.objects))
        map == BoundariesMap(boundaries)
    IN  [key \in DOMAIN map |->
            n + (CHOOSE j \in 1..Len(boundaries) :
                    /\ boundaries[j] = map[key]
                    /\ \A l \in 1..(j - 1) : boundaries[l] # map[key])]

\* Variant: Object.assign(popData, boundary), the record enriched in place.
SpreadInPlace(heap, popRef, boundaryRef) ==
    [heap EXCEPT !.objects[popRef] = SpreadMerge(heap.objects[popRef], heap.objects[boundaryRef]),
                 !.mergedData = Append(@, popRef)]

\* return { ...popData, ...boundary }: an object literal is a new object.
SpreadIntoNew(heap, popRef, boundaryRef) ==
    [heap EXCEPT !.objects = Append(@, SpreadMerge(heap.objects[popRef], heap.objects[boundaryRef])),
                 !.mergedData = Append(@, Len(heap.objects) + 1)]

\* populationData.map(callback) from index i on; return popData returns the
\* reference it was given.
RECURSIVE MapObjectsFrom(_, _, _)
MapObjectsFrom(heap, i, refs) ==
    IF i > Len(heap.populationData) THEN heap
    ELSE LET popRef == heap.populationData[i]
             countryCode == CountryCodeKey(heap.objects[popRef])
         IN  IF countryCode # "" /\ countryCode \in DOMAIN refs
             THEN MapObjectsFrom(SpreadIntoNew(heap, popRef, refs[countryCode]), i + 1, refs)
             ELSE MapObjectsFrom([heap EXCEPT !.mergedData = Append(@, popRef)], i + 1, refs)

\* mergeDatasets on the objects: the early returns hand back the argument
\* array; a call that throws has built nothing.
MergeObjects(heap, worldBoundaries) ==
    IF Len(heap.populationData) = 0 \/ IsFalsyBoundaries(worldBoundaries)
    THEN [heap EXCEPT !.mergedData = heap.populationData]
    ELSE IF BoundariesArray(worldBoundaries).type # "array" THEN heap
    ELSE MapObjectsFrom(heap, 1, BoundaryRefs(heap))

MergeCall ==
    /\ mPc = "ready"
    /\ mOut' = mergeDatasets(mPop, mBoundaries)
    /\ mHeap' = MergeObjects(mHeap, mBoundaries)
    /\ mPc' = IF mOut'.kind = "ok" THEN "returned" ELSE "threw"
    /\ UNCHANGED <<mPop, mBoundaries>>

MergeIdle ==
    /\ mPop = <<>>
    /\ mBoundaries = JsNull
    /\ mPc = "idle"
    /\ mOut = NoResult
    /\ mHeap = NoObjects

MergeInit ==
    /\ mPop \in SeqUpTo(PopulationRecords, MaxPop)
    /\ mBoundaries \in BoundariesInputs
    /\ mPc = "ready"
    /\ mOut = NoResult
    /\ mHeap = ObjectsAtCall(mPop, mBoundaries)

(***************************************************************************)
(* Numbers in arithmetic and as text                                       *)
(***************************************************************************)

RECURSIVE Pow10(_)
Pow10(e) == IF e = 0 THEN 1 ELSE 10 * Pow10(e - 1)

\* a - b
Minus(a, b) ==
    IF isNaN(a) \/ isNaN(b) THEN NaN
    ELSE IF a.k = "inf" THEN (IF b.k = "inf" /\ b.neg = a.neg THEN NaN ELSE a)
    ELSE IF b.k = "inf" THEN Infinity(~b.neg)
    ELSE LET m == Min(a.e, b.e)
             d == a.n * Pow10(a.e - m) - b.n * Pow10(b.e - m)
         IN  Canonical(d < 0, IF d < 0 THEN 0 - d ELSE d, m)

\* The sign a sort comparator's result is read as: NaN counts as 0.
SignOf(x) ==
    IF x.k = "inf" THEN (IF x.neg THEN -1 ELSE 1)
    ELSE IF x.k = "nan" \/ x.n = 0 THEN 0
    ELSE IF x.n < 0 THEN -1 ELSE 1

\* a >= b and a <= b
GreaterOrEqual(a, b) == ~isNaN(a) /\ ~isNaN(b) /\ (a = b \/ SignOf(Minus(a, b)) >= 0)
LessOrEqual(a, b) == GreaterOrEqual(b, a)

RECURSIVE IntToString(_)
IntToString(n) ==
    IF n < 10 THEN CharAt(Digits, n + 1)
    ELSE IntToString(n \div 10) \o CharAt(Digits, (n % 10) + 1)

\* Number.prototype.toString() for the numbers below 1e21 in size that
\* have at most one leading zero after the point.
NumberToString(x) ==
    IF x.k = "nan" THEN "NaN"
    ELSE IF x.k = "inf" THEN (IF x.neg THEN "-Infinity" ELSE "Infinity")
    ELSE LET abs == IF x.n < 0 THEN 0 - x.n ELSE x.n
             sign == IF x.n < 0 THEN "-" ELSE ""
         IN  IF x.e >= 0
             THEN sign \o IntToString(abs * Pow10(x.e))
             ELSE LET unit == Pow10(0 - x.e)
                      frac == IntToString(unit + (abs % unit))
                  IN  sign \o IntToString(abs \div unit) \o "."
                          \o SubSeq(frac, 2, Len(frac))

\* Variant: a sort that is not stable, elements that compare equal come
\* out in reverse order.
SortReversingTies(rows, compared) ==
    LET n == Len(rows)
        Rank(i) == Cardinality({j \in 1..n :
                       \/ compared[j][i] < 0
                       \/ compared[j][i] = 0 /\ j > i}) + 1
    IN  [p \in 1..n |-> rows[CHOOSE i \in 1..n : Rank(i) = p]]

\* Array.prototype.sort(compare), with compared[j][i] the sign of
\* compare(rows[j], rows[i]): stable, so an element goes after the elements
\* that compare below it and after the earlier ones that compare equal to it.
Sort(rows, compared) ==
    LET n == Len(rows)
        Rank(i) == Cardinality({j \in 1..n :
                       \/ compared[j][i] < 0
                       \/ compared[j][i] = 0 /\ j < i}) + 1
    IN  [p \in 1..n |-> rows[CHOOSE i \in 1..n : Rank(i) = p]]

\* Array.prototype.slice(0, end)
SliceTo(rows, end) == SubSeq(rows, 1, Min(end, Len(rows)))

(***************************************************************************)
(* DashboardDataService: processDataForChart, processDataByYear            *)
(*                                                                         *)
(* data is a merged table.  An optional string argument is JsNull or a     *)
(* JsString.                                                               *)
(***************************************************************************)

minYear == 1960
maxYear == 2023

\* slice(0, 50): the number of countries a year chart shows at most.
topCountriesLimit == 50

EmptyChart == [labels |-> <<>>, values |-> <<>>, title |-> "Population (1960-2023)"]

\* if (countryName): null and '' are falsy
IsGiven(countryName) == countryName.type = "string" /\ countryName.s # ""

\* Variant: the names compared as written only.
MatchesCountryExact(d, countryName) == d.countryName = countryName.s

\* d.countryName === countryName ||
\* d.countryName.toUpperCase() === countryName?.toUpperCase()
MatchesCountry(d, countryName) ==
    \/ d.countryName = countryName.s
    \/ toUpperCase(d.countryName) = toUpperCase(countryName.s)

\* The filter of the default branch.
IsAfghanistan(d) ==
    \/ toUpperCase(d.countryName) = "AFGHANISTAN"
    \/ toUpperCase(d.countryName) = "AFGHANISTAN)"
    \/ d.countryCode = "AFG"

\* Variant: no restriction on the year.
InAnyYear(d) == TRUE

\* d.year >= 1960 && d.year <= 2023
InYearRange(d) ==
    GreaterOrEqual(d.year, Num(minYear)) /\ LessOrEqual(d.year, Num(maxYear))

\* Variant: (a, b) => b.year - a.year
ByYearDescending(a, b) == SignOf(Minus(b.year, a.year))

\* (a, b) => a.year - b.year
ByYearAscending(a, b) == SignOf(Minus(a.year, b.year))

\* Variant: (a, b) => a.value - b.value
ByValueAscending(a, b) == SignOf(Minus(a.value, b.value))

\* (a, b) => b.value - a.value
ByValueDescending(a, b) == SignOf(Minus(b.value, a.value))

processDataForChart(data, countryName) ==
    IF Len(data) = 0 THEN EmptyChart
    ELSE LET IsCountry(d) == IF IsGiven(countryName)
                             THEN MatchesCountry(d, countryName)
                             ELSE IsAfghanistan(d)
             countryData == SelectSeq(data, IsCountry)
             name == IF IsGiven(countryName) THEN countryName.s ELSE "Afghanistan"
             inRange == SelectSeq(countryData, InYearRange)
             filteredData ==
                 Sort(inRange, [a \in 1..Len(inRange) |-> [b \in 1..Len(inRange) |->
                                   ByYearAscending(inRange[a], inRange[b])]])
         IN  IF Len(countryData) = 0 THEN EmptyChart
             ELSE IF Len(filteredData) = 0 THEN EmptyChart
             ELSE [labels |-> [i \in 1..Len(filteredData) |->
                                  NumberToString(filteredData[i].year)],
                   values |-> [i \in 1..Len(filteredData) |-> filteredData[i].value],
                   title |-> name \o " Population (1960-2023)"]

\* d.countryName && d.countryName.trim() !== ''
HasCountryName(d) == d.countryName # "" /\ trim(d.countryName) # ""

processDataByYear(data, year) ==
    IF Len(data) = 0 THEN EmptyChart
    ELSE LET yearNumber == parseInt(year)
             IsOfYear(d) == d.year = yearNumber
             yearData == SelectSeq(data, IsOfYear)
             named == SelectSeq(yearData, HasCountryName)
             sortedData ==
                 Sort(named, [a \in 1..Len(named) |-> [b \in 1..Len(named) |->
                                 ByValueDescending(named[a], named[b])]])
             top == SliceTo(sortedData, topCountriesLimit)
         IN  IF isNaN(yearNumber) THEN EmptyChart
             ELSE IF Len(yearData) = 0 THEN EmptyChart
             ELSE [labels |-> [i \in 1..Len(top) |-> top[i].countryName],
                   values |-> [i \in 1..Len(top) |-> top[i].value],
                   title |-> "Population by Country (" \o year \o ")"]

\* if (year): null, NaN and 0 are falsy
IsGivenYear(year) == Has(year, "k") /\ year.k = "num" /\ year.n # 0

\* Variant: countryName || defaultCountry
FirstCountryPreferringSelected(defaultCountry, countryName) ==
    IF IsGiven(countryName) THEN countryName ELSE defaultCountry

\* defaultCountry || countryName
FirstCountry(defaultCountry, countryName) ==
    IF IsGiven(defaultCountry) THEN defaultCountry ELSE countryName

\* year is JsNull or a number.
processDataForTable(data, displayOption, countryName, year, defaultCountry) ==
    LET ByYear(rows) ==
            Sort(rows, [a \in 1..Len(rows) |-> [b \in 1..Len(rows) |->
                           ByYearAscending(rows[a], rows[b])]])
        ByValue(rows) ==
            Sort(rows, [a \in 1..Len(rows) |-> [b \in 1..Len(rows) |->
                           ByValueDescending(rows[a], rows[b])]])
        firstCountry == FirstCountry(defaultCountry, countryName)
        IsSelected(d) == MatchesCountry(d, countryName) /\ InYearRange(d)
        IsOfYear(d) == d.year = year
        IsFirst(d) == d.countryName = firstCountry.s /\ InYearRange(d)
    IN  IF Len(data) = 0 THEN <<>>
        ELSE IF displayOption = "country" /\ IsGiven(countryName)
        THEN ByYear(SelectSeq(data, IsSelected))
        ELSE IF displayOption = "year" /\ IsGivenYear(year)
        THEN ByValue(SelectSeq(data, IsOfYear))
        ELSE IF IsGiven(firstCountry)
        THEN ByYear(SelectSeq(data, IsFirst))
        ELSE <<>>

\* Largest number of rows of a generated table.
MaxViewRows == 3

\* Rows of a merged table, by the four fields the service reads.
Row(countryName, countryCode, year, value) ==
    [countryName |-> countryName, countryCode |-> countryCode,
     year |-> Num(year), value |-> Num(value)]

ViewRecords ==
    {Row("India", "IND", maxYear, 1420),
     Row("INDIA", "IND", minYear, 445),
     Row("India", "IND", minYear - 1, 440),
     Row("india", "IND", maxYear + 1, 1430),
     Row("Afghanistan", "AFG", 2020, 41),
     Row("Chile", "CHL", 2020, 19),
     Row("  ", "", 2020, 7)}

\* Five countries of one year, with the values 10, 50, 30, 20, 40.
FiveCountries ==
    <<Row("A", "AAA", 2020, 10), Row("B", "BBB", 2020, 50), Row("C", "CCC", 2020, 30),
      Row("D", "DDD", 2020, 20), Row("E", "EEE", 2020, 40)>>

\* n countries of one year, more than a year chart shows.
ManyCountries(n) ==
    [i \in 1..n |-> Row("C" \o IntToString(i), "C", 2020, (i * 7) % 11)]

ViewTables ==
    SeqUpTo(ViewRecords, MaxViewRows)
    \cup {FiveCountries}
    \cup {ManyCountries(topCountriesLimit + k) : k \in 0..1}

CountryArguments ==
    {JsNull, JsString(""), JsString("India"), JsString("india"), JsString("Chile")}

YearArguments == {"2020", "2023", "2020abc", "abc", "1960"}

ChartCall(countryName) ==
    /\ viewCall.op = "none"
    /\ viewCall' = [op |-> "processDataForChart", countryName |-> countryName]
    /\ viewOut' = processDataForChart(viewData, countryName)
    /\ UNCHANGED viewData

YearCall(year) ==
    /\ viewCall.op = "none"
    /\ viewCall' = [op |-> "processDataByYear", year |-> year]
    /\ viewOut' = processDataByYear(viewData, year)
    /\ UNCHANGED viewData

\* Largest number of rows of a generated table given to processDataForTable.
MaxListRows == 2

\* Three countries of one year, two of them with the same value.
TiedCountries ==
    <<Row("A", "AAA", 2020, 10), Row("B", "BBB", 2020, 50), Row("C", "CCC", 2020, 10)>>

ListTables == SeqUpTo(ViewRecords, MaxListRows) \cup {FiveCountries, TiedCountries}

DisplayOptions == {"country", "year"}

YearNumbers == {JsNull, NaN, Num(0), Num(2020), Num(maxYear)}

DefaultCountries == {JsNull, JsString("India"), JsString("Chile")}

TableCall(displayOption, countryName, year, defaultCountry) ==
    /\ viewCall.op = "none"
    /\ viewCall' = [op |-> "processDataForTable", displayOption |-> displayOption,
                    countryName |-> countryName, year |-> year,
                    defaultCountry |-> defaultCountry]
    /\ viewOut' = processDataForTable(viewData, displayOption, countryName, year,
                                      defaultCountry)
    /\ UNCHANGED viewData

ListInit ==
    /\ viewData \in ListTables
    /\ viewCall = [op |-> "none"]
    /\ viewOut = NoResult

ViewIdle ==
    /\ viewData = <<>>
    /\ viewCall = [op |-> "idle"]
    /\ viewOut = NoResult

ViewInit ==
    /\ viewData \in ViewTables
    /\ viewCall = [op |-> "none"]
    /\ viewOut = NoResult

(***************************************************************************)
(* paginateChartData                                                       *)
(***************************************************************************)

JsUndefined == [type |-> "undefined"]

\* rowsPerPage: number = 10
defaultRowsPerPage == 10

\* A relative index of slice: a negative one counts from the end.
SliceIndex(len, index) == IF index < 0 THEN Max(len + index, 0) ELSE Min(index, len)

\* Array.prototype.slice(start, end)
slice(array, start, end) ==
    SubSeq(array, SliceIndex(Len(array), start) + 1, SliceIndex(Len(array), end))

paginateChartData(fullData, page, rowsPerPageArgument) ==
    LET rowsPerPage == IF rowsPerPageArgument = JsUndefined
                       THEN defaultRowsPerPage ELSE rowsPerPageArgument.n
        startIndex == (page - 1) * rowsPerPage
        endIndex == startIndex + rowsPerPage
    IN  IF Len(fullData.labels) = 0 THEN [labels |-> <<>>, values |-> <<>>]
        ELSE [labels |-> slice(fullData.labels, startIndex, endIndex),
              values |-> slice(fullData.values, startIndex, endIndex)]

\* Longest series given to paginateChartData.
MaxSeriesLen == 21

\* The series of n years from 1960 on, with values 100, 200, ...
SeriesOf(n) ==
    [labels |-> [i \in 1..n |-> IntToString(minYear + i - 1)],
     values |-> [i \in 1..n |-> Num(100 * i)]]

PageArguments == -3..4

RowsPerPageArguments == {JsUndefined, JsNumber(1), JsNumber(3), JsNumber(10)}

PaginateCall(page, rowsPerPage) ==
    /\ pgCall.op = "none"
    /\ pgCall' = [op |-> "paginateChartData", page |-> page, rowsPerPage |-> rowsPerPage]
    /\ pgOut' = paginateChartData(pgFull, page, rowsPerPage)
    /\ UNCHANGED pgFull

PgIdle ==
    /\ pgFull = [labels |-> <<>>, values |-> <<>>]
    /\ pgCall = [op |-> "idle"]
    /\ pgOut = NoResult

PgInit ==
    /\ pgFull \in {SeriesOf(n) : n \in 0..MaxSeriesLen}
    /\ pgCall = [op |-> "none"]
    /\ pgOut = NoResult

(***************************************************************************)
(* DashboardComponent                                                      *)
(*                                                                         *)
(* A selection signal is JsNull or a JsString.  The dropdowns offer the    *)
(* values of their options and the table offers the pages of its rows.     *)
(***************************************************************************)

\* paginateChartData(fullData, page, 10) in updatePaginatedChartData
chartRowsPerPage == 10

\* rows: the rows of a page of the table
tableRowsPerPage == 10

EmptySeries == [labels |-> <<>>, values |-> <<>>]

\* The first occurrences of the elements of a list, in order: a Set.
RECURSIVE Unique(_)
Unique(items) ==
    IF items = <<>> THEN <<>>
    ELSE LET rest == Unique(SubSeq(items, 1, Len(items) - 1))
             last == items[Len(items)]
         IN  IF \E i \in 1..Len(rest) : rest[i] = last THEN rest ELSE Append(rest, last)

\* a.localeCompare(b) as a sign, for names made of letters that differ in
\* a letter or in length: by letters, whatever their case.
RECURSIVE localeCompare(_, _)
localeCompare(a, b) ==
    IF a = "" /\ b = "" THEN 0
    ELSE IF a = "" THEN -1
    ELSE IF b = "" THEN 1
    ELSE LET x == LetterIndex(LowerLetters, LowerChar(CharAt(a, 1)))
             y == LetterIndex(LowerLetters, LowerChar(CharAt(b, 1)))
         IN  IF x < y THEN -1
             ELSE IF x > y THEN 1
             ELSE localeCompare(SubSeq(a, 2, Len(a)), SubSeq(b, 2, Len(b)))

\* item.year && item.year >= 1960 && item.year <= 2023
HasListedYear(item) == item.year.k = "num" /\ item.year.n # 0 /\ InYearRange(item)

extractUniqueYears(data) ==
    LET listed == SelectSeq(data, HasListedYear)
        uniqueYears == Unique([i \in 1..Len(listed) |-> listed[i].year])
        sortedYears ==
            Sort(uniqueYears, [a \in 1..Len(uniqueYears) |-> [b \in 1..Len(uniqueYears) |->
                                  SignOf(Minus(uniqueYears[b], uniqueYears[a]))]])
    IN  [i \in 1..Len(sortedYears) |->
            [label |-> NumberToString(sortedYears[i]),
             value |-> NumberToString(sortedYears[i])]]

extractUniqueCountryNames(data) ==
    LET named == SelectSeq(data, HasCountryName)
        uniqueCountryNames == Unique([i \in 1..Len(named) |-> named[i].countryName])
        sortedCountryNames ==
            Sort(uniqueCountryNames,
                 [a \in 1..Len(uniqueCountryNames) |-> [b \in 1..Len(uniqueCountryNames) |->
                     localeCompare(uniqueCountryNames[a], uniqueCountryNames[b])]])
    IN  [i \in 1..Len(sortedCountryNames) |->
            [label |-> sortedCountryNames[i], value |-> sortedCountryNames[i]]]

\* countryOptions.length > 0 ? countryOptions[0].value : null
getFirstCountryName(data) ==
    LET options == extractUniqueCountryNames(data)
    IN  IF Len(options) > 0 THEN JsString(options[1].value) ELSE JsNull

\* Variant: the current page is left as it is.
PageKept(page) == page

\* this.currentPage.set(1); this.updatePaginatedChartData(1)
PageReset(page) == 1

\* updateChartData and updateChartDataByYear, from the chart the service made
SetChart(chart) ==
    /\ chartTitle' = chart.title
    /\ fullChartData' = [labels |-> chart.labels, values |-> chart.values]
    /\ currentPage' = PageReset(currentPage)
    /\ chartData' = paginateChartData(fullChartData', PageReset(currentPage),
                                      JsNumber(chartRowsPerPage))

\* updateTableData, reading the signals as they are after the handler's sets
TableFor(data, displayOption, country, year, options) ==
    processDataForTable(
        data,
        IF displayOption = "" THEN "country" ELSE displayOption,
        country,
        IF IsGiven(year) THEN parseInt(year.s) ELSE JsNull,
        IF Len(options) > 0 /\ options[1].value # ""
        THEN JsString(options[1].value) ELSE JsNull)

Pending == [kind |-> "pending"]

\* Variant: combineLatest with a start value for the boundaries, the handler
\* runs as soon as the population has arrived.
PopulationArrived(population, boundaries) == population.kind = "value"

\* forkJoin emits once, when both of its sources have emitted and completed.
ForkJoinEmits(population, boundaries) ==
    population.kind = "value" /\ boundaries.kind = "value"

\* What the handler gets for a source.
Delivered(fetch) == IF fetch.kind = "value" THEN fetch.value ELSE JsNull

\* The next handler of ngOnInit.  An exception of mergeDatasets leaves it
\* before any signal is set, and is not given to the error handler.
LoadNext(populationData, worldBoundaries) ==
    LET merged == mergeDatasets(populationData, worldBoundaries)
        mergedData == merged.value
        defaultCountry == getFirstCountryName(mergedData)
    IN  /\ dMerges' = dMerges + 1
        /\ dErrors' = dErrors
        /\ dLast' = "load"
        /\ IF merged.kind = "error"
           THEN /\ dPhase' = "threw"
                /\ UNCHANGED <<optionVars, selectedCountry, chartVars, tableData>>
           ELSE /\ dPhase' = "loaded"
                /\ allPopulationData' = mergedData
                /\ yearOptions' = extractUniqueYears(mergedData)
                /\ countryOptions' = extractUniqueCountryNames(mergedData)
                /\ IF IsGiven(defaultCountry)
                   THEN /\ selectedCountry' = defaultCountry
                        /\ SetChart(processDataForChart(mergedData, defaultCountry))
                        /\ tableData' = TableFor(mergedData, selectedDisplayOption,
                                                 defaultCountry, selectedYear,
                                                 countryOptions')
                   ELSE UNCHANGED <<selectedCountry, chartVars, tableData>>

\* ngOnInit: forkJoin subscribes to both fetches.
NgOnInit ==
    /\ dPhase = "created"
    /\ dPhase' = "loading"
    /\ dLast' = "ngOnInit"
    /\ UNCHANGED <<dPopulation, dBoundaries, dMerges, dErrors, selectedDisplayOption,
                   optionVars, selectedCountry, selectedYear, chartVars, tableData>>

\* A fetch delivers its value after the other or before it.
FetchesArrive(population, boundaries) ==
    /\ dPopulation' = population
    /\ dBoundaries' = boundaries
    /\ UNCHANGED <<selectedDisplayOption, selectedYear>>
    /\ IF ForkJoinEmits(population, boundaries)
       THEN LoadNext(Delivered(population), Delivered(boundaries))
       ELSE UNCHANGED <<dPhase, dMerges, dErrors, dLast, optionVars, selectedCountry,
                        chartVars, tableData>>

PopulationArrives(populationData) ==
    /\ dPhase = "loading"
    /\ dPopulation = Pending
    /\ FetchesArrive([kind |-> "value", value |-> populationData], dBoundaries)

BoundariesArrive(worldBoundaries) ==
    /\ dPhase = "loading"
    /\ dBoundaries = Pending
    /\ FetchesArrive(dPopulation, [kind |-> "value", value |-> worldBoundaries])

\* A fetch fails: forkJoin fails with its error and drops the other fetch;
\* error: (error) => console.error('Error fetching data:', error)
FetchFails(population, boundaries, error) ==
    /\ dPhase = "loading"
    /\ dPopulation' = population
    /\ dBoundaries' = boundaries
    /\ dPhase' = "failed"
    /\ dErrors' = Append(dErrors, error)
    /\ dLast' = "error"
    /\ UNCHANGED <<dMerges, selectedDisplayOption, optionVars, selectedCountry,
                   selectedYear, chartVars, tableData>>

PopulationFails(error) ==
    /\ dPopulation = Pending
    /\ FetchFails([kind |-> "error", error |-> error], dBoundaries, error)

BoundariesFail(error) ==
    /\ dBoundaries = Pending
    /\ FetchFails(dPopulation, [kind |-> "error", error |-> error], error)

onDisplayOptionChange(value) ==
    /\ dPhase # "created"
    /\ dLast' = "onDisplayOptionChange"
    /\ selectedDisplayOption' = value
    /\ IF value = "country"
       THEN /\ selectedYear' = JsNull
            /\ tableData' = IF IsGiven(selectedCountry) /\ Len(allPopulationData) > 0
                            THEN TableFor(allPopulationData, value, selectedCountry,
                                          JsNull, countryOptions)
                            ELSE tableData
            /\ UNCHANGED selectedCountry
       ELSE IF value = "year"
       THEN /\ selectedCountry' = JsNull
            /\ tableData' = IF IsGiven(selectedYear) /\ Len(allPopulationData) > 0
                            THEN TableFor(allPopulationData, value, JsNull,
                                          selectedYear, countryOptions)
                            ELSE tableData
            /\ UNCHANGED selectedYear
       ELSE UNCHANGED <<selectedCountry, selectedYear, tableData>>
    /\ UNCHANGED <<loadVars, optionVars, chartVars>>

onCountryChange(value) ==
    /\ dPhase # "created"
    /\ dLast' = "onCountryChange"
    /\ selectedCountry' = JsString(value)
    /\ IF Len(allPopulationData) > 0
       THEN /\ SetChart(processDataForChart(allPopulationData, JsString(value)))
            /\ tableData' = TableFor(allPopulationData, selectedDisplayOption,
                                     JsString(value), selectedYear, countryOptions)
       ELSE UNCHANGED <<chartVars, tableData>>
    /\ UNCHANGED <<loadVars, optionVars, selectedDisplayOption, selectedYear>>

onYearChange(value) ==
    /\ dPhase # "created"
    /\ dLast' = "onYearChange"
    /\ selectedYear' = JsString(value)
    /\ IF Len(allPopulationData) > 0
       THEN /\ SetChart(processDataByYear(allPopulationData, value))
            /\ tableData' = TableFor(allPopulationData, selectedDisplayOption,
                                     selectedCountry, JsString(value), countryOptions)
       ELSE UNCHANGED <<chartVars, tableData>>
    /\ UNCHANGED <<loadVars, optionVars, selectedDisplayOption, selectedCountry>>

\* onTablePageChange and updatePaginatedChartData
onTablePageChange(page) ==
    /\ dPhase # "created"
    /\ dLast' = "onTablePageChange"
    /\ currentPage' = page
    /\ chartData' = paginateChartData(fullChartData, page, JsNumber(chartRowsPerPage))
    /\ UNCHANGED <<loadVars, optionVars, selectedDisplayOption, selectedCountry,
                   selectedYear, fullChartData, chartTitle, tableData>>

\* Number of years of the country that has the most rows of a population list.
MaxDashYears == 12

\* What getPopulationData delivers: rows of India for the first years from
\* 1960 on and of Chile for two of them, no row, or a row without a name.
PopulationLists ==
    {[i \in 1..MaxDashYears |-> Row("India", "IND", minYear + i - 1, 400 + i)]
         \o <<Row("Chile", "CHL", minYear + 1, 8), Row("Chile", "CHL", minYear, 7)>>,
     <<>>,
     <<Row("  ", "", 2020, 7)>>}

\* What getWorldBoundariesData delivers.
BoundariesLists ==
    {JsObject([total_count |-> 1,
               results |-> <<[iso3 |-> JsString("IND"), continent |-> "Asia"]>>]),
     JsObject([total_count |-> 0, results |-> <<>>])}

\* Errors of the fetches.
FetchErrors == {"Failed to fetch world boundaries data: timeout",
                "CSV data is empty"}

\* The values a dropdown offers.
ValuesOf(options) == {options[i].value : i \in 1..Len(options)}

\* The pages the table offers: Math.floor(first / rows) + 1 for the rows it
\* shows, page 1 when it shows none.
TablePages == 1..Max(1, CeilDiv(Len(tableData), tableRowsPerPage))

DIdle ==
    /\ dPhase = "idle"
    /\ dPopulation = Pending
    /\ dBoundaries = Pending
    /\ dMerges = 0
    /\ dErrors = <<>>
    /\ dLast = "none"
    /\ selectedDisplayOption = "country"
    /\ allPopulationData = <<>>
    /\ countryOptions = <<>>
    /\ selectedCountry = JsNull
    /\ yearOptions = <<>>
    /\ selectedYear = JsNull
    /\ fullChartData = EmptySeries
    /\ chartData = EmptySeries
    /\ chartTitle = "Population (1960-2023)"
    /\ tableData = <<>>
    /\ currentPage = 1

\* The component as constructed.
DInit ==
    /\ dPhase = "created"
    /\ dPopulation = Pending
    /\ dBoundaries = Pending
    /\ dMerges = 0
    /\ dErrors = <<>>
    /\ dLast = "none"
    /\ selectedDisplayOption = "country"
    /\ allPopulationData = <<>>
    /\ countryOptions = <<>>
    /\ selectedCountry = JsNull
    /\ yearOptions = <<>>
    /\ selectedYear = JsNull
    /\ fullChartData = EmptySeries
    /\ chartData = EmptySeries
    /\ chartTitle = "Population (1960-2023)"
    /\ tableData = <<>>
    /\ currentPage = 1

(***************************************************************************)
(* Specifications: one per operation                                       *)
(***************************************************************************)

BIdle == BInit /\ bPhase = "idle"

PIdle == PInit /\ pPhase = "idle"

\* One subscription to getWorldBoundariesData.
InitBoundaries == BInit
    /\ PIdle /\ CsvIdle /\ ColIdle /\ MergeIdle /\ LineIdle /\ ViewIdle /\ PgIdle /\ DIdle

NextBoundaries ==
    \/ BSubscribe /\ UNCHANGED <<pVars, lineVars, csvVars, colVars, mVars, viewVars, pgVars, dVars>>
    \/ \E error \in RequestFailures :
          BFirstFails(error) /\ UNCHANGED <<pVars, lineVars, csvVars, colVars, mVars, viewVars, pgVars, dVars>>
    \/ \E firstResponse \in FirstResponses :
          BFirstArrives(firstResponse) /\ UNCHANGED <<pVars, lineVars, csvVars, colVars, mVars, viewVars, pgVars, dVars>>
    \/ \E i \in 1..(Len(bRequests) - 1) :
          \E response \in PageResponses(bRequests[i + 1], TotalCountOf(bFirst)) :
             BPageArrives(i, response) /\ UNCHANGED <<pVars, lineVars, csvVars, colVars, mVars, viewVars, pgVars, dVars>>
    \/ \E i \in DOMAIN bPages : \E error \in RequestFailures :
          BPageFails(i, error) /\ UNCHANGED <<pVars, lineVars, csvVars, colVars, mVars, viewVars, pgVars, dVars>>

SpecBoundaries == InitBoundaries /\ [][NextBoundaries]_vars

\* One subscription to getPopulationData.
InitPopulation == PInit
    /\ BIdle /\ CsvIdle /\ ColIdle /\ MergeIdle /\ LineIdle /\ ViewIdle /\ PgIdle /\ DIdle

NextPopulation ==
    \/ PSubscribe /\ UNCHANGED <<bVars, lineVars, csvVars, colVars, mVars, viewVars, pgVars, dVars>>
    \/ \E error \in RequestFailures :
          PRequestFails(error) /\ UNCHANGED <<bVars, lineVars, csvVars, colVars, mVars, viewVars, pgVars, dVars>>
    \/ \E text \in CsvResponseTexts :
          PResponse(text) /\ UNCHANGED <<bVars, lineVars, csvVars, colVars, mVars, viewVars, pgVars, dVars>>

SpecPopulation == InitPopulation /\ [][NextPopulation]_vars

\* One call of parseCsvLine on any of the lines.
InitLine == LineInit
    /\ BIdle /\ PIdle /\ CsvIdle /\ ColIdle /\ MergeIdle /\ ViewIdle /\ PgIdle /\ DIdle

NextLine == LineCall /\ UNCHANGED <<bVars, pVars, csvVars, colVars, mVars, viewVars, pgVars, dVars>>

SpecLine == InitLine /\ [][NextLine]_vars

\* One call of parseCsvToJson on any of the documents.
InitCsv == CsvInit
    /\ BIdle /\ PIdle /\ ColIdle /\ MergeIdle /\ LineIdle /\ ViewIdle /\ PgIdle /\ DIdle

NextCsv == CsvCall /\ UNCHANGED <<bVars, pVars, lineVars, colVars, mVars, viewVars, pgVars, dVars>>

SpecCsv == InitCsv /\ [][NextCsv]_vars

\* parseCsvToJson called on a table and on the table rearranged.
InitColumns == ColInit
    /\ BIdle /\ PIdle /\ CsvIdle /\ MergeIdle /\ LineIdle /\ ViewIdle /\ PgIdle /\ DIdle

NextColumns == ColCall /\ UNCHANGED <<bVars, pVars, lineVars, csvVars, mVars, viewVars, pgVars, dVars>>

SpecColumns == InitColumns /\ [][NextColumns]_vars

\* One call of mergeDatasets on any of the inputs.
InitMerge == MergeInit
    /\ BIdle /\ PIdle /\ CsvIdle /\ ColIdle /\ LineIdle /\ ViewIdle /\ PgIdle /\ DIdle

NextMerge == MergeCall /\ UNCHANGED <<bVars, pVars, lineVars, csvVars, colVars, viewVars, pgVars, dVars>>

SpecMerge == InitMerge /\ [][NextMerge]_vars

\* One call of a method of DashboardDataService on any of the tables.
InitView == ViewInit
    /\ BIdle /\ PIdle /\ CsvIdle /\ ColIdle /\ MergeIdle /\ LineIdle /\ PgIdle /\ DIdle

NextView ==
    \/ \E countryName \in CountryArguments :
          ChartCall(countryName)
              /\ UNCHANGED <<bVars, pVars, lineVars, csvVars, colVars, mVars, pgVars, dVars>>
    \/ \E year \in YearArguments :
          YearCall(year)
              /\ UNCHANGED <<bVars, pVars, lineVars, csvVars, colVars, mVars, pgVars, dVars>>

SpecView == InitView /\ [][NextView]_vars

\* One call of processDataForTable on any of the tables.
InitList == ListInit
    /\ BIdle /\ PIdle /\ CsvIdle /\ ColIdle /\ MergeIdle /\ LineIdle /\ PgIdle /\ DIdle

NextList ==
    \E displayOption \in DisplayOptions : \E countryName \in CountryArguments :
        \E year \in YearNumbers : \E defaultCountry \in DefaultCountries :
            TableCall(displayOption, countryName, year, defaultCountry)
                /\ UNCHANGED <<bVars, pVars, lineVars, csvVars, colVars, mVars, pgVars, dVars>>

SpecList == InitList /\ [][NextList]_vars

\* The dashboard: its load and the events of its dropdowns and its table.
InitDashboard == DInit
    /\ BIdle /\ PIdle /\ CsvIdle /\ ColIdle /\ MergeIdle /\ LineIdle /\ ViewIdle /\ PgIdle

NextDashboard ==
    \/ NgOnInit
         /\ UNCHANGED <<bVars, pVars, lineVars, csvVars, colVars, mVars, viewVars, pgVars>>
    \/ \E populationData \in PopulationLists :
          PopulationArrives(populationData)
              /\ UNCHANGED <<bVars, pVars, lineVars, csvVars, colVars, mVars, viewVars, pgVars>>
    \/ \E worldBoundaries \in BoundariesLists :
          BoundariesArrive(worldBoundaries)
              /\ UNCHANGED <<bVars, pVars, lineVars, csvVars, colVars, mVars, viewVars, pgVars>>
    \/ \E error \in FetchErrors :
          PopulationFails(error)
              /\ UNCHANGED <<bVars, pVars, lineVars, csvVars, colVars, mVars, viewVars, pgVars>>
    \/ \E error \in FetchErrors :
          BoundariesFail(error)
              /\ UNCHANGED <<bVars, pVars, lineVars, csvVars, colVars, mVars, viewVars, pgVars>>
    \/ \E value \in {"country", "year"} :
          onDisplayOptionChange(value)
              /\ UNCHANGED <<bVars, pVars, lineVars, csvVars, colVars, mVars, viewVars, pgVars>>
    \/ \E value \in ValuesOf(countryOptions) :
          onCountryChange(value)
              /\ UNCHANGED <<bVars, pVars, lineVars, csvVars, colVars, mVars, viewVars, pgVars>>
    \/ \E value \in ValuesOf(yearOptions) :
          onYearChange(value)
              /\ UNCHANGED <<bVars, pVars, lineVars, csvVars, colVars, mVars, viewVars, pgVars>>
    \/ \E page \in TablePages :
          onTablePageChange(page)
              /\ UNCHANGED <<bVars, pVars, lineVars, csvVars, colVars, mVars, viewVars, pgVars>>

SpecDashboard == InitDashboard /\ [][NextDashboard]_vars

\* One call of paginateChartData on any of the series.
InitPaginate == PgInit
    /\ BIdle /\ PIdle /\ CsvIdle /\ ColIdle /\ MergeIdle /\ LineIdle /\ ViewIdle /\ DIdle

NextPaginate ==
    \E page \in PageArguments : \E rowsPerPage \in RowsPerPageArguments :
        PaginateCall(page, rowsPerPage)
            /\ UNCHANGED <<bVars, pVars, lineVars, csvVars, colVars, mVars, viewVars, dVars>>

SpecPaginate == InitPaginate /\ [][NextPaginate]_vars

(***************************************************************************)
(* Properties of mergeDatasets (SpecMerge)                                 *)
(***************************************************************************)

\* The boundary records handed to the call, whatever the shape of the input.
GivenBoundaries ==
    IF mBoundaries.type = "object" /\ Has(mBoundaries.props, "results")
    THEN mBoundaries.props.results
    ELSE IF mBoundaries.type = "array" THEN mBoundaries.items
    ELSE <<>>

\* The boundary records whose iso3, trimmed and uppercased, is this
\* population record's code, trimmed and uppercased: their indices.
MatchesOf(popData) ==
    {j \in 1..Len(GivenBoundaries) :
        /\ Has(GivenBoundaries[j], "iso3")
        /\ GivenBoundaries[j].iso3.type = "string"
        /\ trim(GivenBoundaries[j].iso3.s) # ""
        /\ toUpperCase(trim(GivenBoundaries[j].iso3.s))
               = toUpperCase(trim(popData.countryCode))}

PopulationKeys == {"countryName", "countryCode", "year", "value"}

\* C1: for any population list and any boundaries input the call returns a
\* list as long as the population list, and the record at index i is the
\* population record at index i, alone or enriched from a boundary record.
MergeKeepsCardinality ==
    mPc # "ready" =>
        /\ mPc = "returned"
        /\ Len(mOut.value) = Len(mPop)
        /\ \A i \in 1..Len(mPop) :
              \/ mOut.value[i] = mPop[i]
              \/ \E j \in 1..Len(GivenBoundaries) :
                    /\ DOMAIN mOut.value[i] = DOMAIN mPop[i] \cup DOMAIN GivenBoundaries[j]
                    /\ \A k \in DOMAIN mPop[i] \ DOMAIN GivenBoundaries[j] :
                          mOut.value[i][k] = mPop[i][k]

\* C2: with no boundary record (empty input) or a null input the call
\* returns normally and its result equals the population list.
MergeIdentity ==
    (mPc # "ready" /\ Len(GivenBoundaries) = 0) =>
        (mPc = "returned" /\ mOut.value = mPop)

\* C3: every returned record has the countryName, countryCode, year and
\* value of the population record at its index, and on any other key that
\* both records have, the boundary record's value.
MergeKeepsPopulationFields ==
    mPc = "returned" =>
        \A i \in 1..Len(mPop) :
            /\ \A k \in PopulationKeys : mOut.value[i][k] = mPop[i][k]
            /\ MatchesOf(mPop[i]) # {} =>
                  LET boundary == GivenBoundaries[CHOOSE j \in MatchesOf(mPop[i]) :
                                      \A l \in MatchesOf(mPop[i]) : j <= l]
                  IN  \A k \in (DOMAIN boundary \cap DOMAIN mPop[i]) \ PopulationKeys :
                          mOut.value[i][k] = boundary[k]

\* C10: when several boundary records have the same iso3 after trimming and
\* uppercasing, a population record with that code is enriched from the
\* first of them in input order, whatever the later ones hold.
FirstDuplicateWins ==
    mPc = "returned" =>
        \A i \in 1..Len(mPop) :
            MatchesOf(mPop[i]) # {} =>
                LET first == CHOOSE j \in MatchesOf(mPop[i]) :
                                 \A l \in MatchesOf(mPop[i]) : j <= l
                    boundary == GivenBoundaries[first]
                IN  /\ DOMAIN mOut.value[i] = DOMAIN mPop[i] \cup DOMAIN boundary
                    /\ \A k \in DOMAIN boundary : mOut.value[i][k] = boundary[k]
                    /\ \A k \in DOMAIN mPop[i] \ DOMAIN boundary :
                          mOut.value[i][k] = mPop[i][k]

\* A call that met two different boundary records with the code of a
\* population record, and returned.
FirstDuplicateWinsWitness ==
    /\ mPc = "returned"
    /\ \E i \in 1..Len(mPop) :
          \E j, l \in MatchesOf(mPop[i]) :
             /\ j < l
             /\ GivenBoundaries[j].continent # GivenBoundaries[l].continent
             /\ mOut.value[i].continent = GivenBoundaries[j].continent

\* The record with every key of the boundary record, and the remaining keys
\* of the population record.
EnrichedWith(popData, boundary) ==
    [k \in DOMAIN popData \cup DOMAIN boundary |->
        IF k \in DOMAIN boundary THEN boundary[k] ELSE popData[k]]

\* The boundary records given to the call whose iso3 is missing, is not a
\* string, or is blank: their indices.
UnusableBoundaries ==
    {j \in 1..Len(GivenBoundaries) :
        \/ ~Has(GivenBoundaries[j], "iso3")
        \/ GivenBoundaries[j].iso3.type # "string"
        \/ trim(GivenBoundaries[j].iso3.s) = ""}

InputRefs == 1..(Len(mPop) + Len(GivenBoundaries))

\* C12: after any call, returned or thrown, the population array holds the
\* same records in the same order, each population record and each boundary
\* record has the content it had before the call, and every returned record
\* that differs from the population record at its index is an object that
\* did not exist before the call.
MergeLeavesInputsUnchanged ==
    mPc # "ready" =>
        /\ mHeap.populationData = [i \in 1..Len(mPop) |-> i]
        /\ \A i \in 1..Len(mPop) : mHeap.objects[i] = mPop[i]
        /\ \A j \in 1..Len(GivenBoundaries) :
              mHeap.objects[Len(mPop) + j] = GivenBoundaries[j]
        /\ mPc = "returned" =>
              /\ Len(mHeap.mergedData) = Len(mOut.value)
              /\ \A i \in 1..Len(mOut.value) :
                    /\ mHeap.objects[mHeap.mergedData[i]] = mOut.value[i]
                    /\ mOut.value[i] # mPop[i] => mHeap.mergedData[i] \notin InputRefs

\* A call that returned an enriched record next to a record passed through.
MergeLeavesInputsUnchangedWitness ==
    /\ mPc = "returned"
    /\ \E i, l \in 1..Len(mPop) :
          /\ mOut.value[i] # mPop[i]
          /\ mHeap.mergedData[i] \notin InputRefs
          /\ mHeap.mergedData[l] = l

(***************************************************************************)
(* Properties of parseCsvLine (SpecLine)                                   *)
(***************************************************************************)

\* The line given to the call.
LineText == ConcatAll(lineTokens)

\* The positions of the line holding character c.
PositionsOf(c) == {p \in 1..Len(LineText) : CharAt(LineText, p) = c}

\* A position is outside the quoted regions when an even number of quote
\* characters comes before it.
OutsideQuotes(p) == Cardinality({q \in PositionsOf("\"") : q < p}) % 2 = 0

\* The line without its quote characters.
LineUnquoted ==
    ConcatAll([p \in 1..Len(LineText) |->
                  IF CharAt(LineText, p) = "\"" THEN "" ELSE CharAt(LineText, p)])

\* No two quote characters of the line are next to each other.
NoAdjacentQuotes == \A p \in PositionsOf("\"") : p + 1 \notin PositionsOf("\"")

\* C16: parseCsvLine returns one field more than the line has commas
\* outside quoted regions.  On a line without doubled quotes the fields,
\* joined by commas, are the line with its quote characters removed: the
\* commas inside quotes stay in their field and the enclosing quotes go.
\* "Korea, Rep.",KOR,2020,51780000 gives Korea, Rep. / KOR / 2020 / 51780000.
CommaSeparatesOutsideQuotes ==
    linePc = "returned" =>
        /\ Len(lineOut) = 1 + Cardinality({p \in PositionsOf(",") : OutsideQuotes(p)})
        /\ NoAdjacentQuotes => Join(lineOut, ",") = LineUnquoted
        /\ lineTokens = KoreaLine =>
              lineOut = <<"Korea, Rep.", "KOR", "2020", "51780000">>

\* The call on "Korea, Rep.",KOR,2020,51780000 has returned.
CommaSeparatesOutsideQuotesWitness ==
    /\ linePc = "returned"
    /\ LineText = "\"Korea, Rep.\",KOR,2020,51780000"
    /\ Len(lineOut) = 4

\* The line starts with a quoted field that ends at piece k: a quote, pieces
\* none of which is a single quote, a quote, and then a comma or the end.
QuotedFieldEndsAt(k) ==
    /\ k \in 2..Len(lineTokens)
    /\ lineTokens[1] = "\"" /\ lineTokens[k] = "\""
    /\ \A l \in 2..(k - 1) : lineTokens[l] # "\""
    /\ k < Len(lineTokens) => lineTokens[k + 1] = ","

\* The pieces 2..k-1, each doubled quote replaced by one quote.
Unescaped(k) ==
    ConcatAll([l \in 1..(k - 2) |->
                  IF lineTokens[l + 1] = "\"\"" THEN "\"" ELSE lineTokens[l + 1]])

\* C17: when the line starts with a quoted field, the first field returned
\* is the text between the enclosing quotes with each doubled quote turned
\* into one quote character; a doubled quote does not end the field.
\* "She said ""hi""",XX,2000,1 gives 4 fields, the first She said "hi".
DoubledQuoteIsLiteral ==
    linePc = "returned" =>
        /\ \A k \in 2..Len(lineTokens) :
              QuotedFieldEndsAt(k) => lineOut[1] = Unescaped(k)
        /\ lineTokens = SheSaidLine =>
              lineOut = <<"She said \"hi\"", "XX", "2000", "1">>

\* The call on "She said ""hi""",XX,2000,1 has returned.
DoubledQuoteIsLiteralWitness ==
    /\ linePc = "returned"
    /\ LineText = "\"She said \"\"hi\"\"\",XX,2000,1"
    /\ Len(lineOut) = 4
    /\ QuotedFieldEndsAt(6)

(***************************************************************************)
(* Properties of parseCsvToJson (SpecCsv)                                  *)
(***************************************************************************)

\* The names on the header line of a document, trimmed.
HeaderNamesOf(text) == CsvHeaders(CsvLines(text))

\* C4: every record returned by parseCsvToJson has a finite year and a
\* finite value; a row whose year or value text is not a finite number is
\* not in the output.
CsvRecordsFinite ==
    csvPc = "returned" =>
        \A i \in 1..Len(csvOut.data) :
            /\ IsFiniteNumber(csvOut.data[i].year)
            /\ IsFiniteNumber(csvOut.data[i].value)

\* The header names of the table, lowercased.
TableNames == [k \in 1..Len(colTable[1]) |-> toLowerCase(colTable[1][k])]

\* Each of the four required names is the name of one column only.
RequiredNamesOnce ==
    \A name \in {"country name", "country code", "year", "value"} :
        Cardinality({k \in 1..Len(TableNames) : TableNames[k] = name}) = 1

\* C14, as stated: a document and the document with its columns permuted
\* (header and every row) and its header names recased give the same
\* record list.
SameRecordsWhenRearranged ==
    colPc = "returned" => colOut[1] = colOut[2]

\* C14, amended: when each required name is the name of one column only,
\* a document and the document with its columns permuted (header and every
\* row) and its header names recased give the same record list.  When a
\* required name is on several columns, both calls read the leftmost of
\* them.
SameRecordsWhenNamesOnce ==
    colPc = "returned" =>
        /\ colOut[1].kind = "ok" /\ colOut[2].kind = "ok"
        /\ RequiredNamesOnce => colOut[1] = colOut[2]
        /\ \A i \in 1..Len(colOut[2].data) :
              LET row == Rearranged(colTable, colVariant)[i + 1]
                  names == Rearranged(colTable, colVariant)[1]
                  first == CHOOSE k \in 1..Len(names) :
                               /\ toLowerCase(names[k]) = "year"
                               /\ \A l \in 1..(k - 1) : toLowerCase(names[l]) # "year"
              IN  Len(colOut[2].data) = Len(colTable) - 1
                      => colOut[2].data[i].year = parseInt(row[first])

\* Two calls that returned the same two records for a table and for the
\* table with the year column moved to the front and the header lowercased.
SameRecordsWhenNamesOnceWitness ==
    /\ colPc = "returned"
    /\ RequiredNamesOnce
    /\ colVariant.perm[1] = 3
    /\ colVariant.headerCase = "lower"
    /\ Len(colOut[1].data) = 2
    /\ colOut[1].data[1].countryName = "Korea, Rep."
    /\ colOut[2] = colOut[1]

\* The non-blank lines of the document after its header line.
DataLinesOf(text) == Tail(CsvLines(text))

\* The record that the fields of one data line make, under the header of
\* the document.
RecordOfLine(text, line) ==
    LET names == HeaderNamesOf(text)
        values == parseCsvLine(line)
        At(name) == ValueText(values, FindHeader(names, name))
    IN  [countryName |-> trim(At("country name")),
         countryCode |-> trim(At("country code")),
         year |-> parseInt(At("year")),
         value |-> parseFloat(At("value"))]

\* C15: when parseCsvToJson returns, it returns at most as many records as
\* the document has non-blank data lines, and the records can be matched to
\* data lines, each record to the line it was made from, with the lines in
\* increasing order.
RecordsInLineOrder ==
    csvPc = "returned" =>
        LET lines == IF CsvLines(csvText) = <<>> THEN <<>> ELSE DataLinesOf(csvText)
            data == csvOut.data
        IN  /\ Len(data) <= Len(lines)
            /\ \E from \in [1..Len(data) -> 1..Len(lines)] :
                  /\ \A i, j \in 1..Len(data) : i < j => from[i] < from[j]
                  /\ \A i \in 1..Len(data) :
                        data[i] = RecordOfLine(csvText, lines[from[i]])

\* A call that returned two different records, from two data lines.
RecordsInLineOrderWitness ==
    /\ csvPc = "returned"
    /\ Len(csvOut.data) = 2
    /\ csvOut.data[1].countryName = "Korea, Rep."
    /\ csvOut.data[2].countryName = "India"

(***************************************************************************)
(* Properties of getPopulationData (SpecPopulation)                        *)
(***************************************************************************)

EmptyResponseArrived == \E i \in 1..Len(pTexts) : trim(pTexts[i]) = ""

\* C5, as stated: an empty or whitespace-only response is answered by new
\* requests, and its error reaches the caller only once the 2 retries are
\* used up (3 requests made).
EmptyResponseRetried ==
    (EmptyResponseArrived /\ pPhase = "error") => pRequests = 3

\* C5, amended: an empty or whitespace-only response is answered by no new
\* request.  Its error reaches the caller at once, wrapped; only failed
\* requests are retried, at most 2 times (3 requests in all).
EmptyResponseNotRetried ==
    /\ pRequests <= 3
    /\ EmptyResponseArrived =>
          /\ pPhase = "error"
          /\ Len(pTexts) = 1
          /\ pError = <<"Failed to fetch population data: Empty response from API">>
          /\ pEmitted = <<>>
          /\ pRequests = Len(pFailures) + 1
          /\ \A i \in 1..Len(pFailures) : pFailures[i] \in RequestFailures

\* The first request answered with white space only, and the caller has
\* the error after that one request.
EmptyResponseNotRetriedWitness ==
    /\ pTexts = <<" \r\n ">>
    /\ pPhase = "error"
    /\ pRequests = 1

RequiredColumns == {"country name", "country code", "year", "value"}

\* A body with a header line on which a required column is absent.
LacksRequiredColumn(text) ==
    /\ trim(text) # ""
    /\ \E name \in RequiredColumns :
          \A i \in 1..Len(HeaderNamesOf(text)) :
              toLowerCase(HeaderNamesOf(text)[i]) # name

\* C13: when the header line of the response lacks one of 'country name',
\* 'country code', 'year', 'value' (in any letter case), the caller of
\* getPopulationData gets an error whose message lists the header names
\* actually found, and gets no record list, empty or partial.
MissingColumnsFail ==
    \A i \in 1..Len(pTexts) :
        LacksRequiredColumn(pTexts[i]) =>
            /\ pPhase = "error"
            /\ pEmitted = <<>>
            /\ pError = <<"Failed to fetch population data: "
                             \o "CSV file missing required columns. Found headers: "
                             \o Join(HeaderNamesOf(pTexts[i]), ", ")>>

\* A response with rows and without the value column has arrived, and the
\* caller has the error.
MissingColumnsFailWitness ==
    /\ pTexts = <<"Country Name,Country Code,Year\nIndia,IND,2020\n">>
    /\ pPhase = "error"
    /\ pError = <<"Failed to fetch population data: CSV file missing required "
                     \o "columns. Found headers: Country Name, Country Code, Year">>

\* The header line of the document has the four required columns.
HasRequiredColumns(text) ==
    /\ trim(text) # ""
    /\ \A name \in RequiredColumns :
          \E i \in 1..Len(HeaderNamesOf(text)) :
              toLowerCase(HeaderNamesOf(text)[i]) = name

\* C29: on a document whose header line has the four required columns, in
\* any order, parseCsvToJson returns whatever the data lines are: a line
\* with fewer fields than the header is skipped or emitted, it never makes
\* the call raise.
CsvReturnsOnAnyRows ==
    (csvPc # "ready" /\ HasRequiredColumns(csvText)) => csvPc = "returned"

(***************************************************************************)
(* Properties of getWorldBoundariesData (SpecBoundaries)                   *)
(***************************************************************************)

FirstArrived == bPhase \in {"pages", "done"} \/ (bPhase = "error" /\ Len(bRequests) > 1)

\* The results of additional page i as received, [] when it has none.
PageResults(i) ==
    IF "results" \in DOMAIN bPages[i].response THEN bPages[i].response.results ELSE <<>>

\* C6: when a page request fails, the first or a later one, the subscriber
\* gets an error that carries the cause's message and never a value, and
\* nothing of the pages that did arrive.
PageFailureFailsAll ==
    bCause # <<>> =>
        /\ bPhase = "error"
        /\ bEmitted = <<>>
        /\ Len(bCause) = 1
        /\ bError = <<"Failed to fetch world boundaries data: "
                         \o (IF "message" \in DOMAIN bCause[1]
                             THEN bCause[1].message ELSE "Network error")>>

\* An additional request failed after another page had arrived with records.
PageFailureFailsAllWitness ==
    /\ bPhase = "error"
    /\ Len(bRequests) >= 3
    /\ \E i \in DOMAIN bPages : bPages[i].done /\ Len(PageResults(i)) > 0
    /\ Len(InitResultsOf(bFirst)) > 0

\* C7: the combined results are the first page's records followed by the
\* additional pages' records by increasing offset, in whatever order the
\* additional responses completed.
CombinedInOffsetOrder ==
    (bPhase = "done" /\ Len(bPages) > 0) =>
        /\ Len(bEmitted) = 1
        /\ bEmitted[1].results
               = InitResultsOf(bFirst) \o Flatten([i \in 1..Len(bPages) |-> PageResults(i)])
        /\ \A i \in 1..Len(bPages) : bRequests[i + 1] = 100 * i
        /\ \A i \in 1..Len(bPages) :
              \A j \in 1..Len(PageResults(i)) : PageResults(i)[j] = 100 * i + j - 1

\* Two additional pages with records completed in decreasing offset order.
CombinedInOffsetOrderWitness ==
    /\ bPhase = "done"
    /\ Len(bOrder) >= 2
    /\ bOrder[1] > bOrder[2]
    /\ Len(PageResults(bOrder[1])) > 0
    /\ Len(PageResults(bOrder[2])) > 0

\* C8: with total_count T and a first page of F < T records, 1 + ceil((T -
\* F) / 100) requests are issued in all; for T = 250 and full pages that is
\* 3 requests, and the combined result is the 250 records in offset order.
RequestCount ==
    /\ (FirstArrived /\ Len(InitResultsOf(bFirst)) < TotalCountOf(bFirst)) =>
          LET T == TotalCountOf(bFirst)
              F == Len(InitResultsOf(bFirst))
              pagesNeeded == CHOOSE n \in 0..T : 100 * n >= T - F /\ 100 * (n - 1) < T - F
          IN  Len(bRequests) = 1 + pagesNeeded
    /\ (/\ bPhase = "done"
        /\ TotalCountOf(bFirst) = 250
        /\ Len(InitResultsOf(bFirst)) = 100
        /\ \A i \in 1..Len(bPages) : Len(PageResults(i)) = IF i = 1 THEN 100 ELSE 50) =>
          /\ Len(bRequests) = 3
          /\ bEmitted = <<[total_count |-> 250, results |-> [j \in 1..250 |-> j - 1]]>>

\* total_count 250, three full pages, all arrived.
RequestCountWitness ==
    /\ bPhase = "done"
    /\ TotalCountOf(bFirst) = 250
    /\ Len(bRequests) = 3
    /\ Len(bEmitted) = 1
    /\ Len(bEmitted[1].results) = 250

\* C9: when the first page holds at least total_count records (total_count
\* 0 or missing included), the first response is emitted as it is and no
\* other request is made.
FirstPageSuffices ==
    (/\ bFirst # NoResponse
     /\ Len(IF "results" \in DOMAIN bFirst THEN bFirst.results ELSE <<>>)
            >= (IF "total_count" \in DOMAIN bFirst THEN bFirst.total_count ELSE 0)) =>
        /\ bPhase = "done"
        /\ bEmitted = <<bFirst>>
        /\ bRequests = <<0>>

\* A first page of exactly total_count = 100 records was emitted.
FirstPageSufficesWitness ==
    /\ bPhase = "done"
    /\ bRequests = <<0>>
    /\ "total_count" \in DOMAIN bFirst
    /\ bFirst.total_count = 100
    /\ bEmitted = <<bFirst>>
    /\ Len(bFirst.results) = 100

\* C25: the step that reads the first page issues every additional request,
\* the one for offset 100 * i for each additional page i, and no request is
\* issued later: none waits for the response of another.
AdditionalRequestsTogether ==
    [][/\ (bPhase = "first" /\ bPhase' = "pages") =>
             /\ Len(bRequests') = 1 + Len(bPages')
             /\ \A i \in 1..Len(bPages') : bRequests'[i + 1] = 100 * i
       /\ bPhase = "pages" => bRequests' = bRequests]_vars

\* Three additional requests are out and no response to them has arrived.
AdditionalRequestsTogetherWitness ==
    /\ bPhase = "pages"
    /\ bRequests = <<0, 100, 200, 300>>
    /\ bOrder = <<>>
    /\ \A i \in DOMAIN bPages : ~bPages[i].done

\* Every request was answered with all the records there are in its range.
AllPagesFull ==
    /\ Len(InitResultsOf(bFirst)) = Min(100, TotalCountOf(bFirst))
    /\ \A i \in 1..Len(bPages) :
          Len(PageResults(i)) = Max(0, Min(100, TotalCountOf(bFirst) - 100 * i))

\* C28: once the first page is read, whatever number of records it held,
\* every record index below total_count is within the 100 records from
\* one of the requested offsets; and when every request was answered with
\* all the records of its range, the combined results are the records 0 to
\* total_count - 1, each once.
OffsetsCoverAllRecords ==
    /\ FirstArrived =>
          \A r \in 0..(TotalCountOf(bFirst) - 1) :
              \E k \in 1..Len(bRequests) : bRequests[k] <= r /\ r < bRequests[k] + 100
    /\ (bPhase = "done" /\ TotalCountOf(bFirst) > 0 /\ AllPagesFull) =>
          /\ Len(bEmitted) = 1
          /\ bEmitted[1].results = [j \in 1..TotalCountOf(bFirst) |-> j - 1]

\* 250 records fetched in three full pages, the last page arriving first.
OffsetsCoverAllRecordsWitness ==
    /\ bPhase = "done"
    /\ TotalCountOf(bFirst) = 250
    /\ AllPagesFull
    /\ bRequests = <<0, 100, 200>>
    /\ bOrder = <<2, 1>>
    /\ bEmitted[1].results = [j \in 1..250 |-> j - 1]

(***************************************************************************)
(* Properties of DashboardDataService (SpecView)                           *)
(***************************************************************************)

\* processDataForChart was called with a country name.
ChartCalledFor ==
    /\ viewCall.op = "processDataForChart"
    /\ viewCall.countryName.type = "string"
    /\ viewCall.countryName.s # ""

\* The rows of the table whose countryName is the requested name ignoring
\* letter case and whose year is in 1960..2023: their indices.
CountryRows ==
    {i \in 1..Len(viewData) :
        /\ toLowerCase(viewData[i].countryName) = toLowerCase(viewCall.countryName.s)
        /\ viewData[i].year.n \in 1960..2023}

\* The one-to-one lists of the indices in S.
Orderings(S) ==
    {f \in [1..Cardinality(S) -> S] :
        \A p, q \in 1..Cardinality(S) : f[p] = f[q] => p = q}

\* C18: processDataForChart called with a country name returns the rows
\* whose countryName is that name ignoring letter case and whose year is in
\* 1960..2023, each once, in ascending order of year: labels[p] is the year
\* in decimal digits, values[p] the value of the same row, and the title is
\* the requested name followed by ' Population (1960-2023)'.  With no such
\* row it returns empty labels and values and the title
\* 'Population (1960-2023)'.
CountrySeriesIsFilteredAndSorted ==
    ChartCalledFor =>
        IF CountryRows = {}
        THEN viewOut = [labels |-> <<>>, values |-> <<>>,
                        title |-> "Population (1960-2023)"]
        ELSE /\ viewOut.title = viewCall.countryName.s \o " Population (1960-2023)"
             /\ Len(viewOut.labels) = Cardinality(CountryRows)
             /\ Len(viewOut.values) = Cardinality(CountryRows)
             /\ \E f \in Orderings(CountryRows) :
                   /\ \A p, q \in 1..Cardinality(CountryRows) :
                         p < q => viewData[f[p]].year.n <= viewData[f[q]].year.n
                   /\ \A p \in 1..Cardinality(CountryRows) :
                         /\ viewOut.labels[p] = IntToString(viewData[f[p]].year.n)
                         /\ viewOut.values[p] = viewData[f[p]].value

\* A call for india on a table with the rows of India for 2023 and of INDIA
\* for 1960, in that order, and a row out of range: the series is 1960, 2023.
CountrySeriesIsFilteredAndSortedWitness ==
    /\ ChartCalledFor
    /\ viewCall.countryName.s = "india"
    /\ Len(viewData) = 3
    /\ Cardinality(CountryRows) = 2
    /\ viewOut.labels = <<"1960", "2023">>
    /\ viewOut.values = <<Num(445), Num(1420)>>
    /\ viewOut.title = "india Population (1960-2023)"

\* The rows a chart call selects: those of the requested country or, with
\* no country requested, those of Afghanistan; in 1960..2023.
SeriesRows ==
    IF ChartCalledFor THEN CountryRows
    ELSE {i \in 1..Len(viewData) :
             /\ \/ toLowerCase(viewData[i].countryName) \in {"afghanistan", "afghanistan)"}
                \/ viewData[i].countryCode = "AFG"
             /\ viewData[i].year.n \in 1960..2023}

\* The year a label stands for.
LabelYear(p) == DigitsToInt(viewOut.labels[p])

\* C19, as stated: the labels of the series are strictly ascending as
\* years, and the series has as many labels as values.
SeriesStrictlyAscending ==
    viewCall.op = "processDataForChart" =>
        /\ Len(viewOut.labels) = Len(viewOut.values)
        /\ \A p, q \in 1..Len(viewOut.labels) : p < q => LabelYear(p) < LabelYear(q)

\* C19, amended: the series has as many labels as values, its labels never
\* descend as years, and a year is a label once for each selected row of
\* that year: the labels are strictly ascending exactly when no two selected
\* rows have the same year.
SeriesAscendingWithRepeats ==
    viewCall.op = "processDataForChart" =>
        /\ Len(viewOut.labels) = Len(viewOut.values)
        /\ \A p, q \in 1..Len(viewOut.labels) : p < q => LabelYear(p) <= LabelYear(q)
        /\ \A p \in 1..Len(viewOut.labels) :
              Cardinality({q \in 1..Len(viewOut.labels) : LabelYear(q) = LabelYear(p)})
                  = Cardinality({i \in SeriesRows : viewData[i].year.n = LabelYear(p)})
        /\ Len(viewOut.labels) = Cardinality(SeriesRows)

\* A call on a table with two rows of India for 2023 around a row for 1960.
SeriesAscendingWithRepeatsWitness ==
    /\ viewCall.op = "processDataForChart"
    /\ Len(viewData) = 3
    /\ viewData[1] = viewData[3]
    /\ viewOut.labels = <<"1960", "2023", "2023">>

\* The year a year call asks for, as a number; NaN when the text has none.
RequestedYear == parseInt(viewCall.year)

\* The rows of the requested year, and those of them with a country name.
RowsOfYear == {i \in 1..Len(viewData) : viewData[i].year = RequestedYear}
NamedRowsOfYear == {i \in RowsOfYear : trim(viewData[i].countryName) # ""}

\* How many entries of the result, and how many named rows of the year,
\* have this country name and this value.
EntriesLike(name, value) ==
    Cardinality({p \in 1..Len(viewOut.labels) :
                    viewOut.labels[p] = name /\ viewOut.values[p] = value})
RowsLike(name, value) ==
    Cardinality({i \in NamedRowsOfYear :
                    viewData[i].countryName = name /\ viewData[i].value = value})

\* The result holds the named rows of the year by descending value, cut
\* after the first 50: a row is left out only if 50 rows with values at
\* least as large are in.
IsTopOfYear ==
    /\ Len(viewOut.labels) = Len(viewOut.values)
    /\ Len(viewOut.labels) = Min(50, Cardinality(NamedRowsOfYear))
    /\ \A p, q \in 1..Len(viewOut.values) :
          p < q => viewOut.values[p].n >= viewOut.values[q].n
    /\ \A p \in 1..Len(viewOut.labels) :
          EntriesLike(viewOut.labels[p], viewOut.values[p])
              <= RowsLike(viewOut.labels[p], viewOut.values[p])
    /\ \A i \in NamedRowsOfYear :
          \/ EntriesLike(viewData[i].countryName, viewData[i].value)
                 = RowsLike(viewData[i].countryName, viewData[i].value)
          \/ /\ Len(viewOut.values) = 50
             /\ viewData[i].value.n <= viewOut.values[50].n

\* C20, as stated: processDataByYear returns the rows of the requested year
\* that have a country name, by descending value, cut to 50 at most, with
\* labels[i] the country name and values[i] its value, under the title
\* 'Population by Country (<year>)'.
YearSnapshotAsStated ==
    viewCall.op = "processDataByYear" =>
        /\ IsTopOfYear
        /\ viewOut.title = "Population by Country (" \o viewCall.year \o ")"

\* C20, amended: when the table has a row of the requested year,
\* processDataByYear returns the rows of that year that have a country
\* name, by descending value, cut to 50 at most, with labels[i] the country
\* name and values[i] its value, under the title
\* 'Population by Country (<year>)'; the values 10, 50, 30, 20, 40 give
\* 50, 40, 30, 20, 10.  When no row has that year, or the year text
\* starts with no number, it returns empty labels and values under the
\* title 'Population (1960-2023)'.
YearSnapshotWhenYearHasRows ==
    viewCall.op = "processDataByYear" =>
        /\ IsTopOfYear
        /\ viewOut.title = IF RowsOfYear # {}
                           THEN "Population by Country (" \o viewCall.year \o ")"
                           ELSE "Population (1960-2023)"
        /\ (viewData = FiveCountries /\ viewCall.year = "2020") =>
              /\ viewOut.values = <<Num(50), Num(40), Num(30), Num(20), Num(10)>>
              /\ viewOut.labels = <<"B", "E", "C", "D", "A">>

\* The call for 2020 on the five countries with values 10, 50, 30, 20, 40.
YearSnapshotWhenYearHasRowsWitness ==
    /\ viewCall.op = "processDataByYear"
    /\ viewCall.year = "2020"
    /\ Len(viewData) = 5
    /\ viewOut.values = <<Num(50), Num(40), Num(30), Num(20), Num(10)>>
    /\ viewOut.title = "Population by Country (2020)"

\* C26: in the result of processDataByYear, entries of equal value are in
\* the order of their rows in the table, and a row left out at the cut
\* after 50 comes later in the table than every row of the same value that
\* is in the result.  Rows with the same name and value are told apart by
\* their order: the k-th such entry shows the k-th such row.
TiesKeepTableOrder ==
    (viewCall.op = "processDataByYear" /\ Len(viewOut.labels) = Len(viewOut.values)) =>
        LET year == RequestedYear
            rows == SelectSeq(viewData,
                        LAMBDA d : d.year = year /\ trim(d.countryName) # "")
            Shows(p, k) == /\ rows[k].countryName = viewOut.labels[p]
                           /\ rows[k].value = viewOut.values[p]
            Alike(j, k) == /\ rows[j].countryName = rows[k].countryName
                           /\ rows[j].value = rows[k].value
            Nth(p) == Cardinality({r \in 1..p :
                          /\ viewOut.labels[r] = viewOut.labels[p]
                          /\ viewOut.values[r] = viewOut.values[p]})
            RowOfEntry(p) ==
                CHOOSE k \in 1..Len(rows) :
                    /\ Shows(p, k)
                    /\ Cardinality({j \in 1..k : Shows(p, j)}) = Nth(p)
            IsShown(k) ==
                Cardinality({j \in 1..k : Alike(j, k)})
                    <= Cardinality({p \in 1..Len(viewOut.labels) : Shows(p, k)})
        IN  /\ \A p, q \in 1..Len(viewOut.values) :
                  (p < q /\ viewOut.values[p] = viewOut.values[q])
                      => RowOfEntry(p) < RowOfEntry(q)
            /\ \A k \in 1..Len(rows) : \A p \in 1..Len(viewOut.values) :
                  (viewOut.values[p] = rows[k].value /\ ~IsShown(k))
                      => RowOfEntry(p) < k

\* The call for 2020 on 51 countries, the 11th, 22nd, 33rd and 44th of
\* value 0: the first three of them end the result, the 44th is left out.
TiesKeepTableOrderWitness ==
    /\ viewCall.op = "processDataByYear"
    /\ Len(viewData) = 51
    /\ Len(viewOut.labels) = 50
    /\ SubSeq(viewOut.labels, 48, 50) = <<"C11", "C22", "C33">>
    /\ viewOut.values[50] = Num(0)
    /\ viewData[44].value = Num(0)

(***************************************************************************)
(* Properties of paginateChartData (SpecPaginate)                          *)
(***************************************************************************)

\* The page size of the call: the one given, or 10.
PageSize == IF pgCall.rowsPerPage = JsUndefined THEN 10 ELSE pgCall.rowsPerPage.n

\* The 0-based indices of the series that the page asks for.
PageIndices ==
    {i \in 0..(Len(pgFull.labels) - 1) :
        /\ (pgCall.page - 1) * PageSize <= i
        /\ i < (pgCall.page - 1) * PageSize + PageSize}

\* C21: the call returns the labels and the values at the indices from
\* (page-1)*pageSize up to, not including, (page-1)*pageSize + pageSize, in
\* order, and nothing else; pageSize is 10 when not given.
PageIsTheSlice ==
    pgCall.op = "paginateChartData" =>
        /\ Len(pgOut.labels) = Cardinality(PageIndices)
        /\ Len(pgOut.values) = Cardinality(PageIndices)
        /\ \A k \in 1..Len(pgOut.labels) :
              /\ pgOut.labels[k] = pgFull.labels[(pgCall.page - 1) * PageSize + k]
              /\ pgOut.values[k] = pgFull.values[(pgCall.page - 1) * PageSize + k]

\* C22: for a page below 1 or above ceil(n / pageSize) the call returns
\* empty labels and empty values.
OutOfRangePageIsEmpty ==
    (/\ pgCall.op = "paginateChartData"
     /\ pgCall.page \notin 1..CeilDiv(Len(pgFull.labels), PageSize)) =>
        pgOut = [labels |-> <<>>, values |-> <<>>]

(***************************************************************************)
(* Properties of processDataForTable (SpecList)                            *)
(***************************************************************************)

\* The indices of viewData in the order of the rows of the result: the
\* result is rows of the table, each index at most once.
RowsOfTable ==
    {f \in [1..Len(viewOut) -> 1..Len(viewData)] :
        /\ \A p, q \in 1..Len(viewOut) : f[p] = f[q] => p = q
        /\ \A p \in 1..Len(viewOut) : viewOut[p] = viewData[f[p]]}

\* The result is exactly the rows with indices in S, each once.
ListedRowsAre(S) ==
    /\ Len(viewOut) = Cardinality(S)
    /\ \E f \in RowsOfTable : {f[p] : p \in 1..Len(viewOut)} = S

\* The order of the result.
YearNotDescending ==
    \A p, q \in 1..Len(viewOut) : p < q => viewOut[p].year.n <= viewOut[q].year.n
ValueNotAscending ==
    \A p, q \in 1..Len(viewOut) : p < q => viewOut[p].value.n >= viewOut[q].value.n

\* The rows of the table with this country name ignoring letter case, and
\* those with exactly this name, with the year in 1960..2023.
RowsOfCountry(name) ==
    {i \in 1..Len(viewData) :
        /\ toLowerCase(viewData[i].countryName) = toLowerCase(name)
        /\ viewData[i].year.n \in 1960..2023}
RowsNamed(name) ==
    {i \in 1..Len(viewData) :
        /\ viewData[i].countryName = name
        /\ viewData[i].year.n \in 1960..2023}

CountryModeWithCountry ==
    /\ viewCall.op = "processDataForTable"
    /\ viewCall.displayOption = "country"
    /\ viewCall.countryName.type = "string" /\ viewCall.countryName.s # ""

YearModeWithYear ==
    /\ viewCall.op = "processDataForTable"
    /\ viewCall.displayOption = "year"
    /\ viewCall.year \notin {JsNull, NaN, Num(0)}

\* C23: processDataForTable in country mode with a country returns exactly
\* the rows of that country, ignoring letter case, with year in 1960..2023,
\* in ascending order of year; in year mode with a year it returns exactly
\* the rows of that year in descending order of value.
TableRowsOfSelector ==
    /\ CountryModeWithCountry =>
          /\ ListedRowsAre(RowsOfCountry(viewCall.countryName.s))
          /\ YearNotDescending
    /\ YearModeWithYear =>
          /\ ListedRowsAre({i \in 1..Len(viewData) : viewData[i].year = viewCall.year})
          /\ ValueNotAscending

\* A call in country mode for india on the rows of India for 2023 and of
\* INDIA for 1960, and one in year mode for 2020 on the five countries.
TableRowsOfSelectorWitness ==
    \/ /\ CountryModeWithCountry
       /\ viewCall.countryName.s = "india"
       /\ viewData = <<Row("India", "IND", 2023, 1420), Row("INDIA", "IND", 1960, 445)>>
       /\ viewOut = <<Row("INDIA", "IND", 1960, 445), Row("India", "IND", 2023, 1420)>>
    \/ /\ YearModeWithYear
       /\ viewData = FiveCountries
       /\ Len(viewOut) = 5
       /\ viewOut[1].value = Num(50) /\ viewOut[5].value = Num(10)

\* A call with a default country and without the selector of its mode.
NoSelectorButDefault ==
    /\ viewCall.op = "processDataForTable"
    /\ \/ viewCall.displayOption = "country" /\ viewCall.countryName \in {JsNull, JsString("")}
       \/ viewCall.displayOption = "year" /\ viewCall.year \in {JsNull, NaN, Num(0)}
    /\ viewCall.defaultCountry.type = "string"

BothDelivered == dPopulation.kind = "value" /\ dBoundaries.kind = "value"

\* The state of the dashboard is as constructed.
NothingLoaded ==
    /\ allPopulationData = <<>>
    /\ yearOptions = <<>>
    /\ countryOptions = <<>>
    /\ selectedCountry = [type |-> "null"]
    /\ fullChartData = [labels |-> <<>>, values |-> <<>>]
    /\ chartData = [labels |-> <<>>, values |-> <<>>]
    /\ chartTitle = "Population (1960-2023)"
    /\ tableData = <<>>

\* C24: as long as the population fetch and the boundaries fetch have not
\* both delivered, the merge has not run and allPopulationData, the options,
\* the selected country, the chart and the table are as constructed; when a
\* fetch has failed, the merge has not run and never runs, the error handler
\* got that failure, once, and allPopulationData is empty.
LoadWaitsForBothFetches ==
    /\ ~BothDelivered => (dMerges = 0 /\ NothingLoaded)
    /\ dPopulation.kind = "error" =>
          (dMerges = 0 /\ dErrors = <<dPopulation.error>> /\ allPopulationData = <<>>)
    /\ dBoundaries.kind = "error" =>
          (dMerges = 0 /\ dErrors = <<dBoundaries.error>> /\ allPopulationData = <<>>)
    /\ dMerges <= 1

\* The population arrived with rows, then the boundaries fetch failed.
LoadWaitsForBothFetchesWitness ==
    /\ dPopulation.kind = "value"
    /\ Len(dPopulation.value) > 0
    /\ dBoundaries.kind = "error"
    /\ dErrors = <<"Failed to fetch world boundaries data: timeout">>
    /\ dMerges = 0
    /\ allPopulationData = <<>>

\* C30: after every handler of the dashboard, chartData holds the labels
\* and the values of fullChartData from index (currentPage - 1) * 10 up to,
\* not including, currentPage * 10; and after a country change or a year
\* change currentPage is 1.
ChartShowsCurrentPage ==
    /\ chartData.labels = SubSeq(fullChartData.labels, (currentPage - 1) * 10 + 1,
                                 Min(currentPage * 10, Len(fullChartData.labels)))
    /\ chartData.values = SubSeq(fullChartData.values, (currentPage - 1) * 10 + 1,
                                 Min(currentPage * 10, Len(fullChartData.values)))
    /\ dLast \in {"onCountryChange", "onYearChange"} => currentPage = 1

\* The table went to page 2 of a country with 12 years: the chart shows the
\* last two.
ChartShowsCurrentPageWitness ==
    /\ dLast = "onTablePageChange"
    /\ currentPage = 2
    /\ Len(fullChartData.labels) = 12
    /\ chartData.labels = <<"1970", "1971">>

====
